---- MODULE Spec2Model ----
(***************************************************************************)
(* chinacolor: palette resolution (palettes.py _normalize_identifier,      *)
(* find_palette), palette sampling (get_palette, _interpolate_colors,      *)
(* _diverging_center_out) and the custom palette builder (custom_palette). *)
(*                                                                         *)
(* Text is modelled as a sequence of one-character strings, so that        *)
(* str.lower(), hex parsing and hex formatting are computed, not assumed.  *)
(* A hex colour "#0300FF" is <<"#","0","3","0","0","F","F">>.              *)
(* Python's 0-based list index i is index i+1 of the TLA+ sequence.        *)
(* Floating point is modelled by exact rational arithmetic on integers.    *)
(***************************************************************************)
EXTENDS Integers, Sequences, FiniteSets, TLC

VARIABLES
    pl_map,       \* palette_list.json: key -> palette record
    pl_order,     \* palette_list.json: the keys in declaration order
    chinacolor_csv, \* chinacolor.csv: the colour rows in file order
    chinacolor_json, \* chinacolor.json: the colour records in file order
    storage,      \* the data files present in the package and in the fallback directory
    reads,        \* per data file: how many times its text was read from storage
    frame,        \* the local variables of a running _diverging_center_out
    pc,           \* "idle": no call in progress; "returned": a call has returned
    call,         \* the call made last: its operation and arguments
    ret           \* what that call returned or raised

\* the data files and where they are: no operation of the library writes them
files == <<pl_map, pl_order, chinacolor_csv, chinacolor_json, storage>>

vars == <<pl_map, pl_order, chinacolor_csv, chinacolor_json, storage, reads, frame,
          pc, call, ret>>

---------------------------------------------------------------------------
(* Bounds of the model *)

\* longest list of base colours of a generated palette record
MaxBase == 4

\* largest colour count n requested from get_palette / custom_palette
MaxN == 6

\* the read counter of a data file stops counting at MaxReads
MaxReads == 2

\* longest base list handed to a stepwise run of _diverging_center_out
MaxCenterOutBase == 5

---------------------------------------------------------------------------
(* Python built-ins used by the code *)

Min(a, b) == IF a < b THEN a ELSE b

Max(a, b) == IF a > b THEN a ELSE b

\* s[:n], n possibly negative or beyond the end
Take(s, n) ==
    IF n >= 0 THEN SubSeq(s, 1, Min(n, Len(s)))
    ELSE SubSeq(s, 1, Max(0, Len(s) + n))

\* list(reversed(s))
Reversed(s) == [i \in 1..Len(s) |-> s[Len(s) + 1 - i]]

\* a variant of s * k that does not repeat
RepeatOnce(s, k) == s

\* s * k
RECURSIVE Repeat(_, _)
Repeat(s, k) == IF k <= 0 THEN <<>> ELSE s \o Repeat(s, k - 1)

\* s.index(c) + 1: the first position holding c
IndexOf(s, c) == CHOOSE i \in 1..Len(s) : s[i] = c /\ \A j \in 1..(i - 1) : s[j] # c

UpperLetters ==
    <<"A","B","C","D","E","F","G","H","I","J","K","L","M",
      "N","O","P","Q","R","S","T","U","V","W","X","Y","Z">>

LowerLetters ==
    <<"a","b","c","d","e","f","g","h","i","j","k","l","m",
      "n","o","p","q","r","s","t","u","v","w","x","y","z">>

\* the letter tables as maps, computed once
LowerOf ==
    [c \in {UpperLetters[i] : i \in 1..Len(UpperLetters)} |->
        LowerLetters[CHOOSE i \in 1..Len(UpperLetters) : UpperLetters[i] = c]]

UpperOf ==
    [c \in {LowerLetters[i] : i \in 1..Len(LowerLetters)} |->
        UpperLetters[CHOOSE i \in 1..Len(LowerLetters) : LowerLetters[i] = c]]

LowerChar(c) == IF c \in DOMAIN LowerOf THEN LowerOf[c] ELSE c

UpperChar(c) == IF c \in DOMAIN UpperOf THEN UpperOf[c] ELSE c

\* str.lower()
Lower(s) == [i \in 1..Len(s) |-> LowerChar(s[i])]

\* str.upper()
Upper(s) == [i \in 1..Len(s) |-> UpperChar(s[i])]

---------------------------------------------------------------------------
(* Results and arguments *)

Ok(v) == [status |-> "ok", value |-> v]

Raise(e) == [status |-> e, value |-> <<>>]

\* an int identifier and a str identifier (PaletteIdent = Union[int, str])
IntId(x) == [tag |-> "int", i |-> x, s |-> <<>>]

StrId(t) == [tag |-> "str", i |-> 0, s |-> t]

\* n: Optional[int]
NoneN == [none |-> TRUE, v |-> 0]

SomeN(k) == [none |-> FALSE, v |-> k]

---------------------------------------------------------------------------
(* Palette resolver *)

\* a variant of the scan that compares the primary display name only
RECURSIVE NameScanPrimaryOnly(_, _)
NameScanPrimaryOnly(low, i) ==
    IF i > Len(pl_order) THEN Raise("KeyError")
    ELSE LET k == pl_order[i]
             p == pl_map[k]
         IN  IF Lower(p.palette_name) = low
             THEN Ok([key |-> k, p |-> p])
             ELSE NameScanPrimaryOnly(low, i + 1)

\* a variant of the scan in which the last matching palette wins
RECURSIVE NameScanLast(_, _)
NameScanLast(low, i) ==
    IF i > Len(pl_order) THEN Raise("KeyError")
    ELSE LET k    == pl_order[i]
             p    == pl_map[k]
             rest == NameScanLast(low, i + 1)
         IN  IF rest.status = "ok" THEN rest
             ELSE IF Lower(p.palette_name) = low \/ Lower(p.palette_name_e) = low
             THEN Ok([key |-> k, p |-> p])
             ELSE rest

\* the case-insensitive scan over the palettes from position i on
RECURSIVE NameScan(_, _)
NameScan(low, i) ==
    IF i > Len(pl_order) THEN Raise("KeyError")
    ELSE LET k == pl_order[i]
             p == pl_map[k]
         IN  IF Lower(p.palette_name) = low \/ Lower(p.palette_name_e) = low
             THEN Ok([key |-> k, p |-> p])
             ELSE NameScan(low, i + 1)

\* a variant whose range check lets 0 through: order[0 - 1] is the last key
NormalizeIdentifierZero(x) ==
    IF x.tag = "int"
    THEN IF x.i < 0 \/ x.i > Len(pl_order) THEN Raise("IndexError")
         ELSE LET k == IF x.i = 0 THEN pl_order[Len(pl_order)] ELSE pl_order[x.i]
              IN  Ok([key |-> k, p |-> pl_map[k]])
    ELSE IF x.s \in DOMAIN pl_map THEN Ok([key |-> x.s, p |-> pl_map[x.s]])
         ELSE NameScan(Lower(x.s), 1)

\* a variant that also accepts a key written in another letter case
NormalizeIdentifierAnyCaseKey(x) ==
    IF x.tag = "int"
    THEN IF x.i < 1 \/ x.i > Len(pl_order) THEN Raise("IndexError")
         ELSE Ok([key |-> pl_order[x.i], p |-> pl_map[pl_order[x.i]]])
    ELSE IF \E k \in DOMAIN pl_map : Lower(k) = Lower(x.s)
         THEN LET k == CHOOSE k \in DOMAIN pl_map : Lower(k) = Lower(x.s)
              IN  Ok([key |-> k, p |-> pl_map[k]])
         ELSE NameScan(Lower(x.s), 1)

_normalize_identifier(x) ==
    IF x.tag = "int"
    THEN IF x.i < 1 \/ x.i > Len(pl_order) THEN Raise("IndexError")
         ELSE Ok([key |-> pl_order[x.i], p |-> pl_map[pl_order[x.i]]])
    ELSE IF x.s \in DOMAIN pl_map THEN Ok([key |-> x.s, p |-> pl_map[x.s]])
         ELSE NameScan(Lower(x.s), 1)

find_palette(identifier) ==
    LET r == _normalize_identifier(identifier)
    IN  IF r.status = "ok" THEN Ok(r.value.p) ELSE r

---------------------------------------------------------------------------
(* Hex colours *)

HexDigits == <<"0","1","2","3","4","5","6","7","8","9","A","B","C","D","E","F">>

\* int(c, 16) for each hex digit of either case, computed once
HexValOf ==
    [c \in {HexDigits[i] : i \in 1..16} \cup {LowerChar(HexDigits[i]) : i \in 1..16} |->
        (CHOOSE i \in 1..16 : HexDigits[i] = UpperChar(c)) - 1]

IsHexDigit(c) == c \in DOMAIN HexValOf

HexVal(c) == HexValOf[c]

\* channel k (1 red, 2 green, 3 blue) of "#RRGGBB" as a byte
Channel(hex, k) == 16 * HexVal(hex[2 * k]) + HexVal(hex[2 * k + 1])

\* "#" + "".join(f"{v:02X}" for v in rgb)
FormatHex(rgb) ==
    <<"#", HexDigits[(rgb[1] \div 16) + 1], HexDigits[(rgb[1] % 16) + 1],
           HexDigits[(rgb[2] \div 16) + 1], HexDigits[(rgb[2] % 16) + 1],
           HexDigits[(rgb[3] \div 16) + 1], HexDigits[(rgb[3] % 16) + 1]>>

---------------------------------------------------------------------------
(* Palette sampler: interpolation *)

\* the colormap has max(n, 256) lookup entries
LutFloor == 256

\* Colormap.__call__ on linspace(0, 1, n)[i]: the lookup entry int(x * N),
\* with x = 1 mapped to the last entry
LutIndex(i, n, N) ==
    IF n = 1 THEN 0
    ELSE LET k == (i * N) \div (n - 1)
         IN  IF k >= N THEN N - 1 ELSE k

\* Lookup entry k of N of the piecewise-linear map through the channel bytes cs
\* (knots at j/(m-1)), times 255, as the exact fraction <<numerator, denominator>>
LutEntry(cs, k, N) ==
    LET m == Len(cs)
    IN  IF k = 0 THEN <<cs[1], 1>>
        ELSE IF k = N - 1 THEN <<cs[m], 1>>
        ELSE LET j   == (k * (m - 1) + (N - 2)) \div (N - 1)
                 num == k * (m - 1) - (j - 1) * (N - 1)
             IN  <<cs[j] * ((N - 1) - num) + cs[j + 1] * num, N - 1>>

\* (c * 255).astype(int): the lookup entry, scaled to 0..255, truncated
SampleByte(cs, i, n) ==
    LET N == Max(n, LutFloor)
        e == LutEntry(cs, LutIndex(i, n, N), N)
    IN  e[1] \div e[2]

_interpolate_colors(base, n) ==
    IF Len(base) < 2
    THEN Raise("ValueError")  \* the colormap needs knots at x = 0 and x = 1
    ELSE LET chans == [k \in 1..3 |-> [j \in 1..Len(base) |-> Channel(base[j], k)]]
         IN  Ok([i \in 1..n |->
                   FormatHex([k \in 1..3 |-> SampleByte(chans[k], i - 1, n)])])

---------------------------------------------------------------------------
(* Palette sampler: centre-out selection *)

\* the while loop: out is the pick list, li and ri the 0-based cursors
RECURSIVE CenterOutLoop(_, _, _, _, _)
CenterOutLoop(base, n, out, li, ri) ==
    IF Len(out) >= n THEN out
    ELSE LET m    == Len(base)
             out1 == IF li >= 0 THEN Append(out, base[li + 1]) ELSE out
         IN  IF li >= 0 /\ Len(out1) >= n THEN out1
             ELSE LET li1  == IF li >= 0 THEN li - 1 ELSE li
                      out2 == IF ri < m THEN Append(out1, base[ri + 1]) ELSE out1
                      ri1  == IF ri < m THEN ri + 1 ELSE ri
                  IN  IF li1 < 0 /\ ri1 >= m THEN out2
                      ELSE CenterOutLoop(base, n, out2, li1, ri1)

\* sorted(zip(idxs, out)) with idxs = [base.index(c) for c in out]: a colour's
\* index is that of its first occurrence, and equal indices mean equal colours
RECURSIVE SortedByIndex(_, _, _)
SortedByIndex(base, out, i) ==
    IF i > Len(base) THEN <<>>
    ELSE SelectSeq(out, LAMBDA c : IndexOf(base, c) = i)
         \o SortedByIndex(base, out, i + 1)

_diverging_center_out(base, n) ==
    LET m   == Len(base)
        mid == (m - 1) \div 2
    IN  IF n >= m THEN Take(base, n)
        ELSE IF n = 1 THEN <<base[mid + 1]>>
        ELSE Take(SortedByIndex(base,
                      CenterOutLoop(base, n, <<base[mid + 1]>>, mid - 1, mid + 1), 1), n)

\* base[i] of Python: a negative index counts from the end
PyAt(base, i) ==
    IF i >= 0 /\ i < Len(base) THEN base[i + 1]
    ELSE IF i < 0 /\ i >= -Len(base) THEN base[Len(base) + i + 1]
    ELSE <<>>

\* the local variables when the while loop is reached: out = [base[mid]]
CenterOutEntry(base) ==
    LET mid == (Len(base) - 1) \div 2
    IN  [out |-> <<PyAt(base, mid)>>, li |-> mid - 1, ri |-> mid + 1, iterations |-> 0,
         read |-> {mid}, grew |-> 0, stopped |-> FALSE,
         raised |-> (mid < -Len(base) \/ mid >= Len(base))]

\* a loop body that takes the left colour without asking whether one is left
\* and moves the left cursor two places
CenterOutBodyUnguarded(base, n, f) ==
    LET m    == Len(base)
        out1 == Append(f.out, PyAt(base, f.li))
        brk1 == Len(out1) >= n
        li1  == IF brk1 THEN f.li ELSE f.li - 2
        rhs  == ~brk1 /\ f.ri < m
        out2 == IF rhs THEN Append(out1, PyAt(base, f.ri)) ELSE out1
        ri1  == IF rhs THEN f.ri + 1 ELSE f.ri
    IN  [out |-> out2, li |-> li1, ri |-> ri1,
         iterations |-> IF f.iterations <= m THEN f.iterations + 1 ELSE f.iterations,
         read |-> f.read \cup {f.li} \cup (IF rhs THEN {f.ri} ELSE {}),
         grew |-> Len(out2) - Len(f.out),
         stopped |-> brk1 \/ (li1 < 0 /\ ri1 >= m),
         raised |-> f.raised \/ f.li < -m \/ f.li >= m]

\* one iteration of the while loop on the local variables f; the iteration
\* counter stops counting above len(base)
CenterOutBody(base, n, f) ==
    LET m    == Len(base)
        lhs  == f.li >= 0
        out1 == IF lhs THEN Append(f.out, PyAt(base, f.li)) ELSE f.out
        brk1 == lhs /\ Len(out1) >= n
        li1  == IF lhs /\ ~brk1 THEN f.li - 1 ELSE f.li
        rhs  == ~brk1 /\ f.ri < m
        out2 == IF rhs THEN Append(out1, PyAt(base, f.ri)) ELSE out1
        ri1  == IF rhs THEN f.ri + 1 ELSE f.ri
    IN  [out |-> out2, li |-> li1, ri |-> ri1,
         iterations |-> IF f.iterations <= m THEN f.iterations + 1 ELSE f.iterations,
         read |-> f.read \cup (IF lhs THEN {f.li} ELSE {}) \cup (IF rhs THEN {f.ri} ELSE {}),
         grew |-> Len(out2) - Len(f.out),
         stopped |-> brk1 \/ (~brk1 /\ li1 < 0 /\ ri1 >= m),
         raised |-> f.raised \/ (lhs /\ f.li >= m)]

---------------------------------------------------------------------------
(* Palette sampler: get_palette *)

\* the count rules of get_palette for a resolved record p and an integer n
SampleCount(p, n) ==
    LET base       == p.hex
        base_count == p.color_count
    IN  IF n > base_count
        THEN IF p.type \in {"sequential", "diverging"}
             THEN _interpolate_colors(base, n)
             ELSE Ok(Take(Repeat(base, (n \div Len(base)) + 1), n))
        ELSE IF p.type \in {"sequential", "qualitative"} THEN Ok(Take(base, n))
             ELSE IF p.type = "diverging" THEN Ok(_diverging_center_out(base, n))
             ELSE Ok(Take(base, n))

\* a variant with the test on the wrong sign: direction 1 reverses
ApplyDirectionSwapped(colors, direction) ==
    LET d == IF direction \notin {1, -1} THEN 1 ELSE direction
    IN  IF d = 1 THEN Reversed(colors) ELSE colors

\* a variant that never reverses
ApplyDirectionNever(colors, direction) == colors

\* a variant without the normalisation: every direction but 1 reverses
ApplyDirectionNotOne(colors, direction) ==
    IF direction # 1 THEN Reversed(colors) ELSE colors

\* the direction step
ApplyDirection(colors, direction) ==
    LET d == IF direction \notin {1, -1} THEN 1 ELSE direction
    IN  IF d = -1 THEN Reversed(colors) ELSE colors

get_palette(identifier, n, direction) ==
    LET r == _normalize_identifier(identifier)
    IN  IF r.status # "ok" THEN r
        ELSE LET c == IF n.none THEN Ok(r.value.p.hex) ELSE SampleCount(r.value.p, n.v)
             IN  IF c.status # "ok" THEN c
                 ELSE Ok(ApplyDirection(c.value, direction))

---------------------------------------------------------------------------
(* Canonical colour parser: the hex grammar of to_hex *)

\* str.strip() for blanks
RECURSIVE Strip(_)
Strip(s) ==
    IF s = <<>> THEN s
    ELSE IF s[1] = " " THEN Strip(Tail(s))
    ELSE IF s[Len(s)] = " " THEN Strip(SubSeq(s, 1, Len(s) - 1))
    ELSE s

AllHex(s) == \A i \in 1..Len(s) : IsHexDigit(s[i])

\* a variant that expands the shorthand by repeating the three digits
Hex6Tripled(h0) ==
    LET h1 == Strip(h0)
        h  == IF h1 # <<>> /\ h1[1] = "#" THEN h1 ELSE <<"#">> \o h1
        d  == Tail(h)
    IN  IF Len(d) = 3 /\ AllHex(d)
        THEN Ok(Upper(<<"#", d[1], d[2], d[3], d[1], d[2], d[3]>>))
        ELSE IF Len(d) = 6 /\ AllHex(d) THEN Ok(Upper(h))
        ELSE IF Len(d) = 8 /\ AllHex(d) THEN Ok(Upper(SubSeq(h, 1, 7)))
        ELSE Raise("ValueError")

_hex6(h0) ==
    LET h1 == Strip(h0)
        h  == IF h1 # <<>> /\ h1[1] = "#" THEN h1 ELSE <<"#">> \o h1
        d  == Tail(h)
    IN  IF Len(d) = 3 /\ AllHex(d)
        THEN Ok(Upper(<<"#", d[1], d[1], d[2], d[2], d[3], d[3]>>))
        ELSE IF Len(d) = 6 /\ AllHex(d) THEN Ok(Upper(h))
        ELSE IF Len(d) = 8 /\ AllHex(d) THEN Ok(Upper(SubSeq(h, 1, 7)))
        ELSE Raise("ValueError")

\* re.match(r"^#?[0-9A-Fa-f]{3}([0-9A-Fa-f]{3})?([0-9A-Fa-f]{2})?$", c)
HexPattern(c) ==
    LET d == IF c # <<>> /\ c[1] = "#" THEN Tail(c) ELSE c
    IN  Len(d) \in {3, 5, 6, 8} /\ AllHex(d)

\* A float is the exact fraction <<numerator, denominator>>, denominator > 0

DecimalDigits == <<"0","1","2","3","4","5","6","7","8","9">>

DigitOf == [c \in {DecimalDigits[i] : i \in 1..10} |->
               (CHOOSE i \in 1..10 : DecimalDigits[i] = c) - 1]

AllDigits(s) == \A i \in 1..Len(s) : s[i] \in DOMAIN DigitOf

\* int(s) for a string of decimal digits ("" counts 0)
RECURSIVE DigitsValue(_)
DigitsValue(s) ==
    IF s = <<>> THEN 0 ELSE 10 * DigitsValue(SubSeq(s, 1, Len(s) - 1)) + DigitOf[s[Len(s)]]

RECURSIVE PowerOfTen(_)
PowerOfTen(k) == IF k = 0 THEN 1 ELSE 10 * PowerOfTen(k - 1)

\* s.find(c) + 1, 0 when c is not in s
Find(s, c) ==
    IF \E i \in 1..Len(s) : s[i] = c THEN CHOOSE i \in 1..Len(s) : s[i] = c /\ \A j \in 1..(i - 1) : s[j] # c
    ELSE 0

\* s.rfind(c) + 1, 0 when c is not in s
RFind(s, c) ==
    IF \E i \in 1..Len(s) : s[i] = c
    THEN CHOOSE i \in 1..Len(s) : s[i] = c /\ \A j \in (i + 1)..Len(s) : s[j] # c
    ELSE 0

\* the value of the digits ip before and fp after the point, as a fraction
FloatDigits(neg, ip, fp) ==
    IF AllDigits(ip) /\ AllDigits(fp) /\ Len(ip) + Len(fp) > 0
    THEN Ok(<<(IF neg THEN -1 ELSE 1)
                  * (DigitsValue(ip) * PowerOfTen(Len(fp)) + DigitsValue(fp)),
              PowerOfTen(Len(fp))>>)
    ELSE Raise("ValueError")

\* the unsigned text u cut at its point, which is at place dot (0: no point)
FloatUnsigned(neg, u, dot) ==
    FloatDigits(neg,
                IF dot = 0 THEN u ELSE SubSeq(u, 1, dot - 1),
                IF dot = 0 THEN <<>> ELSE SubSeq(u, dot + 1, Len(u)))

\* the stripped text t without its sign
FloatSigned(t, signed) ==
    FloatUnsigned(signed /\ t[1] = "-",
                  IF signed THEN Tail(t) ELSE t,
                  Find(IF signed THEN Tail(t) ELSE t, "."))

FloatStripped(t) == FloatSigned(t, t # <<>> /\ t[1] \in {"-", "+"})

\* float(tok) for a plain decimal: an optional sign, digits, an optional point
\* and digits; any other text is refused
Float(tok) == FloatStripped(Strip(tok))

\* float(tok[:-1]) / 100.0
Percent(f) ==
    IF f.status = "ok" THEN Ok(<<f.value[1], f.value[2] * 100>>) ELSE f

ParseNumberStripped(tok) ==
    IF tok # <<>> /\ tok[Len(tok)] = "%"
    THEN Percent(Float(SubSeq(tok, 1, Len(tok) - 1)))
    ELSE Float(tok)

_parse_number(tok0) == ParseNumberStripped(Strip(tok0))

\* s.split(","), the first comma being at place k (0: no comma)
RECURSIVE Split(_)
SplitAt(s, k) ==
    IF k = 0 THEN <<s>>
    ELSE <<SubSeq(s, 1, k - 1)>> \o Split(SubSeq(s, k + 1, Len(s)))

Split(s) == SplitAt(s, Find(s, ","))

_clamp01(x) ==
    IF x[1] < 0 THEN <<0, 1>> ELSE IF x[1] > x[2] THEN <<1, 1>> ELSE x

\* a variant that cuts the fraction off
RoundDown(x) == x[1] \div x[2]

\* int(round(x)) for x >= 0: to the nearest integer, a half to the even one
RoundHalfEven(x) ==
    LET fl   == x[1] \div x[2]
        rem2 == 2 * (x[1] - fl * x[2])
    IN  IF rem2 < x[2] THEN fl
        ELSE IF rem2 > x[2] THEN fl + 1
        ELSE IF fl % 2 = 0 THEN fl ELSE fl + 1

Times255(c) == <<c[1] * 255, c[2]>>

ChannelByte(x) == RoundHalfEven(Times255(_clamp01(x)))

_rgb_to_hex_float(r, g, b) == FormatHex(<<ChannelByte(r), ChannelByte(g), ChannelByte(b)>>)

\* a variant that scales each component on its own
ParseRgbPerComponent(text) ==
    LET parts == Split(SubSeq(text, Find(text, "(") + 1,
                              IF RFind(text, ")") = 0 THEN Len(text) - 1
                              ELSE RFind(text, ")") - 1))
    IN  IF Len(parts) < 3 THEN Raise("ValueError")
        ELSE LET vals == [i \in 1..3 |-> _parse_number(parts[i])]
             IN  IF \E i \in 1..3 : vals[i].status # "ok" THEN Raise("ValueError")
                 ELSE LET v == [i \in 1..3 |->
                                   IF vals[i].value[1] > vals[i].value[2]
                                   THEN <<vals[i].value[1], vals[i].value[2] * 255>>
                                   ELSE vals[i].value]
                      IN  Ok(_rgb_to_hex_float(v[1], v[2], v[3]))

\* text[text.find("(") + 1 : text.rfind(")")]
Inner(text, close) ==
    SubSeq(text, Find(text, "(") + 1, IF close = 0 THEN Len(text) - 1 ELSE close - 1)

\* r, g, b = [x / 255.0 for x in (r, g, b)] when one of them is above 1
Scaled(x, big) == IF big THEN <<x.value[1], x.value[2] * 255>> ELSE x.value

RgbOfNumbers(vals) ==
    IF \E i \in 1..3 : vals[i].status # "ok" THEN Raise("ValueError")
    ELSE Ok(_rgb_to_hex_float(
                Scaled(vals[1], \E i \in 1..3 : vals[i].value[1] > vals[i].value[2]),
                Scaled(vals[2], \E i \in 1..3 : vals[i].value[1] > vals[i].value[2]),
                Scaled(vals[3], \E i \in 1..3 : vals[i].value[1] > vals[i].value[2])))

RgbOfParts(parts) ==
    IF Len(parts) < 3 THEN Raise("ValueError")
    ELSE RgbOfNumbers([i \in 1..3 |-> _parse_number(parts[i])])

_parse_rgb(text) == RgbOfParts(Split(Inner(text, RFind(text, ")"))))

\* lower.startswith(prefix)
StartsWith(s, prefix) == Len(s) >= Len(prefix) /\ SubSeq(s, 1, Len(prefix)) = prefix

\* to_hex on a text of the hex grammar, on rgb(...) / rgba(...), or on a text
\* that no grammar accepts (the hsv, hsl, hcl and named grammars are not
\* entered by the texts used here)
to_hex(color) ==
    LET c == Strip(color)
    IN  IF HexPattern(c) THEN _hex6(c)
        ELSE IF StartsWith(Lower(c), <<"r","g","b","(">>)
                \/ StartsWith(Lower(c), <<"r","g","b","a","(">>)
        THEN _parse_rgb(c)
        ELSE Raise("ValueError")

---------------------------------------------------------------------------
(* Dataset accessor: the colour rows *)

\* the sort key d.get("color_id") or 10**9
BigKey == 1000000000

RowKey(row) == IF row.color_id = 0 THEN BigKey ELSE row.color_id

\* list.sort(key=...): stable insertion of row into the sorted list rows
RECURSIVE InsertRow(_, _)
InsertRow(rows, row) ==
    IF rows = <<>> THEN <<row>>
    ELSE IF RowKey(rows[Len(rows)]) <= RowKey(row) THEN Append(rows, row)
    ELSE Append(InsertRow(SubSeq(rows, 1, Len(rows) - 1), row), rows[Len(rows)])

RECURSIVE SortRows(_)
SortRows(rows) ==
    IF rows = <<>> THEN <<>>
    ELSE InsertRow(SortRows(SubSeq(rows, 1, Len(rows) - 1)), rows[Len(rows)])

\* a row as load_chinacolor stores it: the hex is given its leading "#"
NormalizeRow(row) ==
    IF row.hex # <<>> /\ row.hex[1] # "#"
    THEN [row EXCEPT !.hex = <<"#">> \o row.hex]
    ELSE row

DataFiles == {"chinacolor.csv", "chinacolor.json", "palette_list.json"}

\* the text is not None: the file opens in the package data directory
_read_text_from_package(filename) == filename \in storage.package

\* the text is not None: the file exists in the fallback data directory
_read_text_fallback(filename) == filename \in storage.fallback

\* a loader that looks in the package only
LoadTextPackageOnly(filename) == filename \in storage.package

\* the text is not None: the package first, then the fallback directory
_load_text(filename) ==
    IF _read_text_from_package(filename) THEN TRUE ELSE _read_text_fallback(filename)

\* the read counters after _load_text(filename): a text that was found was read
\* from storage once more (the counter stops at MaxReads)
ReadText(counts, filename) ==
    IF _load_text(filename)
    THEN [counts EXCEPT ![filename] = IF @ < MaxReads THEN @ + 1 ELSE @]
    ELSE counts

\* _load_json raises FileNotFoundError when the text is None
_load_json(filename, data) ==
    IF _load_text(filename) THEN Ok(data) ELSE Raise("FileNotFoundError")

\* the CSV branch: the rows converted, then sorted by color_id
LoadCsv == SortRows([i \in 1..Len(chinacolor_csv) |-> NormalizeRow(chinacolor_csv[i])])

\* the JSON branch: d.setdefault("color_id", i) with i counted from 1, in file
\* order (a record without color_id is written with color_id 0 in the model)
LoadJson ==
    [i \in 1..Len(chinacolor_json) |->
        IF chinacolor_json[i].color_id = 0
        THEN [chinacolor_json[i] EXCEPT !.color_id = i]
        ELSE chinacolor_json[i]]

\* the value load_chinacolor returns, or the error it raises
load_chinacolor_call ==
    IF _load_text("chinacolor.csv") THEN Ok(LoadCsv)
    ELSE _load_json("chinacolor.json", LoadJson)

\* the rows load_chinacolor returns to a caller that goes on with them
load_chinacolor == load_chinacolor_call.value

\* the read counters after one call of load_chinacolor
ReadChinacolor(counts) ==
    IF _load_text("chinacolor.csv") THEN ReadText(counts, "chinacolor.csv")
    ELSE ReadText(counts, "chinacolor.json")

\* the value load_palette_list returns, or the error it raises
load_palette_list == _load_json("palette_list.json", <<pl_map, pl_order>>)

\* the metadata of the palettes in declaration order, index counted from 1
list_palettes ==
    IF load_palette_list.status # "ok" THEN load_palette_list
    ELSE Ok([idx \in 1..Len(pl_order) |->
                [index |-> idx,
                 element_name |-> pl_order[idx],
                 palette_name |-> pl_map[pl_order[idx]].palette_name,
                 palette_name_e |-> pl_map[pl_order[idx]].palette_name_e,
                 type |-> pl_map[pl_order[idx]].type,
                 color_count |-> pl_map[pl_order[idx]].color_count]])

---------------------------------------------------------------------------
(* Custom palette builder *)

\* groups / subgroups: Optional[Iterable]
NoneList == [none |-> TRUE, v |-> <<>>]

SomeList(l) == [none |-> FALSE, v |-> l]

Entry(k, hx) == [key |-> k, hex |-> hx]

\* id_to_hex / name_to_hex: a dict comprehension over the rows that have a hex,
\* so the last row with a given id or name is the one kept
LastWith(rows, Test(_)) ==
    CHOOSE i \in 1..Len(rows) :
        Test(rows[i]) /\ \A j \in (i + 1)..Len(rows) : ~Test(rows[j])

FirstWith(rows, Test(_)) ==
    CHOOSE i \in 1..Len(rows) :
        Test(rows[i]) /\ \A j \in 1..(i - 1) : ~Test(rows[j])

Some(rows, Test(_)) == \E i \in 1..Len(rows) : Test(rows[i])

\* a variant in which an id no row carries selects the last row
RECURSIVE CollectIdsClamped(_, _, _)
CollectIdsClamped(rows, ids, chosen) ==
    IF ids = <<>> THEN chosen
    ELSE LET cid    == Head(ids)
             Has(c) == c.color_id = cid /\ c.hex # <<>>
         IN  CollectIdsClamped(rows, Tail(ids),
                 IF Some(rows, Has)
                 THEN Append(chosen, Entry(cid, rows[LastWith(rows, Has)].hex))
                 ELSE Append(chosen, Entry(cid, rows[Len(rows)].hex)))

\* for cid in color_ids
RECURSIVE CollectIds(_, _, _)
CollectIds(rows, ids, chosen) ==
    IF ids = <<>> THEN chosen
    ELSE LET cid    == Head(ids)
             Has(c) == c.color_id = cid /\ c.hex # <<>>
         IN  CollectIds(rows, Tail(ids),
                 IF Some(rows, Has)
                 THEN Append(chosen, Entry(cid, rows[LastWith(rows, Has)].hex))
                 ELSE chosen)

\* for nm in names: the key is the id of the first row of that name, the hex
\* is name_to_hex[nm]
RECURSIVE CollectNames(_, _, _)
CollectNames(rows, names, chosen) ==
    IF names = <<>> THEN chosen
    ELSE LET nm       == Head(names)
             Has(c)   == c.name = nm /\ c.hex # <<>>
             Named(c) == c.name = nm
         IN  CollectNames(rows, Tail(names),
                 IF Some(rows, Has)
                 THEN Append(chosen, Entry(rows[FirstWith(rows, Named)].color_id,
                                           rows[LastWith(rows, Has)].hex))
                 ELSE chosen)

\* a variant that stops at the first text to_hex rejects
RECURSIVE CollectHexesStop(_, _)
CollectHexesStop(hexes, chosen) ==
    IF hexes = <<>> THEN chosen
    ELSE LET r == to_hex(Head(hexes))
         IN  IF r.status = "ok"
             THEN CollectHexesStop(Tail(hexes),
                      Append(chosen, Entry(BigKey + Len(chosen), r.value)))
             ELSE chosen

\* a variant that puts each accepted hex in front of the candidates
RECURSIVE CollectHexesFront(_, _)
CollectHexesFront(hexes, chosen) ==
    IF hexes = <<>> THEN chosen
    ELSE LET r == to_hex(Head(hexes))
         IN  CollectHexesFront(Tail(hexes),
                 IF r.status = "ok"
                 THEN <<Entry(BigKey + Len(chosen), r.value)>> \o chosen
                 ELSE chosen)

\* for hx in hexes: a text to_hex rejects is skipped
RECURSIVE CollectHexes(_, _)
CollectHexes(hexes, chosen) ==
    IF hexes = <<>> THEN chosen
    ELSE LET r == to_hex(Head(hexes))
         IN  CollectHexes(Tail(hexes),
                 IF r.status = "ok"
                 THEN Append(chosen, Entry(BigKey + Len(chosen), r.value))
                 ELSE chosen)

\* for c in base_colors: the rows of group g and subgroup sg, in dataset order
RECURSIVE GroupRows(_, _, _, _)
GroupRows(rows, g, sg, i) ==
    IF i > Len(rows) THEN <<>>
    ELSE (IF rows[i].group = g /\ rows[i].subgroup = sg /\ rows[i].hex # <<>>
          THEN <<Entry(rows[i].color_id, rows[i].hex)>> ELSE <<>>)
         \o GroupRows(rows, g, sg, i + 1)

\* for s in s_list
RECURSIVE SubgroupPicks(_, _, _)
SubgroupPicks(rows, g, s_list) ==
    IF s_list = <<>> THEN <<>>
    ELSE GroupRows(rows, g, Head(s_list), 1) \o SubgroupPicks(rows, g, Tail(s_list))

\* a variant that reads the subgroup sequence -1 as the single subgroup 1
RECURSIVE GroupPicksNoSentinel(_, _, _, _)
GroupPicksNoSentinel(rows, groups, subgroups, gi) ==
    IF gi > Len(groups) THEN <<>>
    ELSE LET s0     == subgroups[gi]
             s_list == IF Len(s0) = 1 /\ s0[1] = -1 THEN <<1>> ELSE s0
         IN  SubgroupPicks(rows, groups[gi], s_list)
             \o GroupPicksNoSentinel(rows, groups, subgroups, gi + 1)

\* for gi, g in enumerate(groups)
RECURSIVE GroupPicks(_, _, _, _)
GroupPicks(rows, groups, subgroups, gi) ==
    IF gi > Len(groups) THEN <<>>
    ELSE LET s0     == subgroups[gi]
             s_list == IF Len(s0) = 1 /\ s0[1] = -1 THEN <<4, 3, 2, 1>> ELSE s0
         IN  SubgroupPicks(rows, groups[gi], s_list)
             \o GroupPicks(rows, groups, subgroups, gi + 1)

\* the subgroup lists after normalisation: the default, or the given lists with
\* the last one recycled
NormalSubgroups(groups, subgroups) ==
    IF subgroups.none THEN [i \in 1..Len(groups) |-> <<1, 2, 3, 4>>]
    ELSE IF Len(subgroups.v) < Len(groups)
         THEN subgroups.v \o [i \in 1..(Len(groups) - Len(subgroups.v)) |->
                                  subgroups.v[Len(subgroups.v)]]
         ELSE subgroups.v

\* a variant of the deduplication that keeps the last occurrence of a hex
RECURSIVE DedupKeepLast(_, _)
DedupKeepLast(chosen, dedup) ==
    IF chosen = <<>> THEN dedup
    ELSE DedupKeepLast(Tail(chosen),
             Append(SelectSeq(dedup, LAMBDA e : e.hex # Head(chosen).hex), Head(chosen)))

\* deduplicate by hex while preserving order
RECURSIVE Dedup(_, _)
Dedup(chosen, dedup) ==
    IF chosen = <<>> THEN dedup
    ELSE Dedup(Tail(chosen),
               IF \E i \in 1..Len(dedup) : dedup[i].hex = Head(chosen).hex
               THEN dedup ELSE Append(dedup, Head(chosen)))

\* the characters in code-point order
Ascii ==
    <<" ", "#", "0","1","2","3","4","5","6","7","8","9">> \o UpperLetters \o LowerLetters

RankOf == [c \in {Ascii[i] : i \in 1..Len(Ascii)} |-> CHOOSE i \in 1..Len(Ascii) : Ascii[i] = c]

CharRank(c) == RankOf[c]

\* a < b for str
RECURSIVE StrLess(_, _)
StrLess(a, b) ==
    IF b = <<>> THEN FALSE
    ELSE IF a = <<>> THEN TRUE
    ELSE IF a[1] = b[1] THEN StrLess(Tail(a), Tail(b))
    ELSE CharRank(a[1]) < CharRank(b[1])

\* a comparison of the keys alone
EntryLessKeyOnly(x, y) == x.key < y.key

\* (key, hex) tuples compared
EntryLess(x, y) == x.key < y.key \/ (x.key = y.key /\ StrLess(x.hex, y.hex))

\* dedup.sort(key=...), stable; desc is reverse=True
RECURSIVE InsertEntry(_, _, _)
InsertEntry(es, e, desc) ==
    IF es = <<>> THEN <<e>>
    ELSE LET last == es[Len(es)]
             keep == IF desc THEN ~EntryLess(last, e) ELSE ~EntryLess(e, last)
         IN  IF keep THEN Append(es, e)
             ELSE Append(InsertEntry(SubSeq(es, 1, Len(es) - 1), e, desc), last)

RECURSIVE SortEntries(_, _)
SortEntries(es, desc) ==
    IF es = <<>> THEN <<>>
    ELSE InsertEntry(SortEntries(SubSeq(es, 1, Len(es) - 1), desc), es[Len(es)], desc)

\* the direction step of custom_palette
CustomDirection(colors, direction) ==
    IF direction = -1 THEN Reversed(colors) ELSE colors

custom_palette(color_ids, names, hexes, groups, subgroups, order, n, direction) ==
    LET rows == load_chinacolor
        c1   == CollectIds(rows, color_ids, <<>>)
        c2   == CollectNames(rows, names, c1)
        c3   == CollectHexes(hexes, c2)
    IN  IF load_chinacolor_call.status # "ok"
        THEN load_chinacolor_call  \* the error of load_chinacolor passes through
        ELSE IF ~groups.none /\ ~subgroups.none /\ groups.v # <<>> /\ subgroups.v = <<>>
        THEN Raise("IndexError")  \* subgroups[-1] of an empty list
        ELSE LET chosen == IF groups.none THEN c3
                           ELSE c3 \o GroupPicks(rows, groups.v,
                                         NormalSubgroups(groups.v, subgroups), 1)
                 dedup  == Dedup(chosen, <<>>)
             IN  IF dedup = <<>> THEN Raise("ValueError")
                 ELSE LET sorted == IF order = 0 THEN SortEntries(dedup, FALSE)
                                    ELSE IF order = -1 THEN SortEntries(dedup, TRUE)
                                    ELSE dedup
                          colors == [i \in 1..Len(sorted) |-> sorted[i].hex]
                          cut    == IF n.none THEN colors
                                    ELSE IF n.v > Len(colors)
                                    THEN Take(Repeat(colors, (n.v \div Len(colors)) + 1), n.v)
                                    ELSE Take(colors, n.v)
                      IN  Ok(CustomDirection(cut, direction))

\* the color_pick dict: "order" always; "color_id" when given (an absent key
\* and an empty list are both written <<>>: custom_palette tests `if color_ids`);
\* "group_info" only when groups is given
create_color_pick(color_id, groups, subgroups, order_rule) ==
    IF order_rule \notin {1, 0, -1} THEN Raise("ValueError")
    ELSE IF groups.none
    THEN Ok([order |-> order_rule, color_id |-> color_id, group_info |-> FALSE,
             group |-> <<>>, subgroup |-> <<>>])
    ELSE IF ~subgroups.none /\ Len(subgroups.v) # Len(groups.v) /\ Len(subgroups.v) # 1
    THEN Raise("ValueError")
    ELSE Ok([order |-> order_rule, color_id |-> color_id, group_info |-> TRUE,
             group |-> groups.v,
             subgroup |-> IF subgroups.none
                          THEN [i \in 1..Len(groups.v) |-> <<1, 2, 3, 4>>]
                          ELSE IF Len(subgroups.v) = 1 /\ Len(groups.v) > 1
                          THEN [i \in 1..Len(groups.v) |-> subgroups.v[1]]
                          ELSE subgroups.v])

\* a variant that builds the palette in input order whatever the pick says
CustomPalettePickInputOrder(color_pick, n, direction) ==
    custom_palette(color_pick.color_id, <<>>, <<>>,
                   IF color_pick.group_info THEN SomeList(color_pick.group) ELSE NoneList,
                   IF color_pick.group_info THEN SomeList(color_pick.subgroup) ELSE NoneList,
                   1, n, direction)

custom_palette_pick(color_pick, n, direction) ==
    custom_palette(color_pick.color_id, <<>>, <<>>,
                   IF color_pick.group_info THEN SomeList(color_pick.group) ELSE NoneList,
                   IF color_pick.group_info THEN SomeList(color_pick.subgroup) ELSE NoneList,
                   color_pick.order, n, direction)

---------------------------------------------------------------------------
(* Data files and call arguments *)

Kinds == {"sequential", "diverging", "qualitative"}

Black == <<"#","0","0","0","0","0","0">>

Jade  == <<"#","0","3","F","F","8","0">>

Red   == <<"#","F","F","0","0","0","0">>

White == <<"#","F","F","F","F","F","F">>

KeyA == <<"p","a">>

KeyB == <<"p","b">>

KeyC == <<"p","c">>

Palette(name, name_e, type, count, hex) ==
    [palette_name |-> name, palette_name_e |-> name_e, type |-> type,
     color_count |-> count, hex |-> hex]

\* a palette_list.json with one palette of each kind
ShippedOrder == <<KeyA, KeyB, KeyC>>

ShippedMap ==
    (KeyA :> Palette(<<"R","e">>, <<"i","n","k">>, "sequential", 3, <<Black, Jade, Red>>))
    @@ (KeyB :> Palette(<<"Y","u">>, <<"j","a","d","e">>, "diverging", 5,
                        <<Red, Jade, White, Jade, Black>>))
    @@ (KeyC :> Palette(<<"M","o">>, <<"P","A">>, "qualitative", 2, <<Jade, Red>>))

Row(id, name, hex, g, sg) ==
    [color_id |-> id, name |-> name, hex |-> hex, group |-> g, subgroup |-> sg]

\* a chinacolor.csv: rows out of id order, one name on two rows, one hex on two
\* rows, one hex written without its "#", two rows in one (group, subgroup)
ShippedCsv ==
    <<Row(7, <<"h","u","i">>, <<"#","8","0","8","0","8","0">>, 1, 2),
      Row(2, <<"l","a","n">>, <<"#","0","0","0","0","F","F">>, 1, 2),
      Row(1, <<"z","h","u">>, Red, 1, 1),
      Row(3, <<"z","h","u">>, <<"#","C","C","0","0","0","0">>, 1, 4),
      Row(5, <<"m","o">>, Black, 2, 4),
      Row(4, <<"q","i","n","g">>, <<"0","0","F","F","0","0">>, 2, 1),
      Row(6, <<"x","u","a","n">>, Black, 2, 3)>>

\* a chinacolor.json: name and hex only, no color_id, no group (written 0)
ShippedJson ==
    <<Row(0, <<"z","h","u">>, Red, 0, 0),
      Row(0, <<"l","a","n">>, <<"#","0","0","0","0","F","F">>, 0, 0),
      Row(0, <<"m","o">>, Black, 0, 0)>>

\* chinacolor.json files: as shipped; every record with its own color_id, not
\* in id order; one record with a color_id and one without
JsonFiles ==
    {ShippedJson,
     <<Row(3, <<"z","h","u">>, Red, 0, 0),
       Row(1, <<"l","a","n">>, <<"#","0","0","0","0","F","F">>, 0, 0),
       Row(2, <<"m","o">>, Black, 0, 0)>>,
     <<Row(5, <<"z","h","u">>, Red, 0, 0),
       Row(0, <<"m","o">>, Black, 0, 0)>>}

\* chinacolor.csv files: as shipped; one row whose color_id does not convert
\* (written 0) before a row whose color_id does
CsvFiles ==
    {ShippedCsv,
     <<Row(0, <<"h","u","i">>, <<"8","0","8","0","8","0">>, 1, 2),
       Row(2, <<"l","a","n">>, <<"#","0","0","0","0","F","F">>, 1, 2),
       Row(1, <<"z","h","u">>, Red, 1, 1)>>}

\* where the data files can be: palette_list.json is package data; each colour
\* file is in the package, in the fallback directory, in both or in neither
Storages ==
    {[package |-> {"palette_list.json"} \cup a, fallback |-> b] :
        a \in SUBSET {"chinacolor.csv", "chinacolor.json"},
        b \in SUBSET {"chinacolor.csv", "chinacolor.json"}}

\* the base colour lists of the generated palette records
SamplerColors == {Black, Jade}

Bases == UNION {[1..k -> SamplerColors] : k \in 1..MaxBase}

\* the display names of the generated two-palette files
ResolverNames == {<<"r","e">>, <<"R","e">>, <<"p","b">>, <<"P","A">>}

Identifiers ==
    {IntId(x) : x \in {-1, 0, 1, 2, 3, 999999}}
    \cup {StrId(t) : t \in {KeyA, KeyB, <<"P","A">>, <<"P","B">>,
                            <<"r","e">>, <<"R","E">>, <<"z","z">>}}

NValues == {NoneN} \cup {SomeN(k) : k \in -1..MaxN}

Directions == {-2, -1, 0, 1, 2}

ColorIdLists == {<<>>, <<5, 1, 5>>, <<9>>, <<6, 2>>}

NameLists == {<<>>, <<<<"z","h","u">>, <<"n","o">>>>, <<<<"n","o">>>>}

HexLists ==
    {<<>>,
     <<<<"#","f","f","f">>, <<"#","a","b","c">>>>,
     <<<<"#","1","2">>, <<"0","0","0","0","0","0","8","0">>>>,
     <<<<"#","1","2">>>>}

GroupLists == {NoneList, SomeList(<<>>), SomeList(<<2>>), SomeList(<<1, 2>>), SomeList(<<3>>)}

SubgroupLists ==
    {NoneList, SomeList(<<>>), SomeList(<<<<-1>>>>), SomeList(<<<<2, 1>>, <<4>>>>)}

Orders == {1, 0, -1}

\* the hex digits and alpha pairs of the texts given to to_hex
ParserDigits == {"0", "7", "a", "C", "f"}

AlphaPairs == {<<"8","0">>, <<"f","F">>}

\* "#rgb", "#rrggbb" and "#rrggbbAA" for the digits r, g, b
HexForms(r, g, b) ==
    {<<"#", r, g, b>>, <<"#", r, r, g, g, b, b>>}
    \cup {<<"#", r, r, g, g, b, b>> \o a : a \in AlphaPairs}

---------------------------------------------------------------------------
(* The state machine: a caller makes one call at a time *)

\* no _diverging_center_out is running
NoFrame ==
    [out |-> <<>>, li |-> 0, ri |-> 0, iterations |-> 0, read |-> {}, grew |-> 0,
     stopped |-> FALSE, raised |-> FALSE]

Idle ==
    /\ pc = "idle"
    /\ call = [op |-> "none"]
    /\ ret = [status |-> "none", value |-> <<>>]
    /\ frame = NoFrame

\* an installed package: the three data files are package data
Installed == [package |-> DataFiles, fallback |-> {}]

\* no data file has been read yet
Fresh == [f \in DataFiles |-> 0]

\* a process that has made many calls already: the counters have stopped
LongRunning == [f \in DataFiles |-> MaxReads]

\* the data files as shipped
Init ==
    /\ pl_order = ShippedOrder
    /\ pl_map = ShippedMap
    /\ chinacolor_csv = ShippedCsv
    /\ chinacolor_json = ShippedJson
    /\ storage = Installed
    /\ reads = LongRunning
    /\ Idle

\* a palette file of one record: any kind, any base list, a declared
\* color_count that may differ from the length of the list (it is not checked
\* when the file is loaded)
InitSampler ==
    /\ pl_order = <<KeyA>>
    /\ \E t \in Kinds, b \in Bases, d \in {-1, 0, 1} :
           pl_map = (KeyA :> Palette(<<"R","e">>, <<"i","n","k">>, t, Len(b) + d, b))
    /\ chinacolor_csv = ShippedCsv
    /\ chinacolor_json = ShippedJson
    /\ storage = Installed
    /\ reads = LongRunning
    /\ Idle

\* a palette file of two records with any display names
InitResolver ==
    /\ pl_order = <<KeyA, KeyB>>
    /\ \E n1 \in ResolverNames, e1 \in ResolverNames,
          n2 \in ResolverNames, e2 \in ResolverNames :
           pl_map = (KeyA :> Palette(n1, e1, "qualitative", 2, <<Black, Jade>>))
                    @@ (KeyB :> Palette(n2, e2, "sequential", 2, <<Red, White>>))
    /\ chinacolor_csv = ShippedCsv
    /\ chinacolor_json = ShippedJson
    /\ storage = Installed
    /\ reads = LongRunning
    /\ Idle

\* a process that starts: any colour files in any of the places, nothing read
InitLoader ==
    /\ pl_order = ShippedOrder
    /\ pl_map = ShippedMap
    /\ chinacolor_csv \in CsvFiles
    /\ chinacolor_json \in JsonFiles
    /\ storage \in Storages
    /\ reads = Fresh
    /\ Idle

LoadChinacolor ==
    /\ pc = "idle"
    /\ call' = [op |-> "load_chinacolor"]
    /\ ret' = load_chinacolor_call
    /\ pc' = "returned"
    /\ reads' = ReadChinacolor(reads)
    /\ UNCHANGED <<files, frame>>

LoadPaletteList ==
    /\ pc = "idle"
    /\ call' = [op |-> "load_palette_list"]
    /\ ret' = load_palette_list
    /\ pc' = "returned"
    /\ reads' = ReadText(reads, "palette_list.json")
    /\ UNCHANGED <<files, frame>>

ListPalettes ==
    /\ pc = "idle"
    /\ call' = [op |-> "list_palettes"]
    /\ ret' = list_palettes
    /\ pc' = "returned"
    /\ reads' = ReadText(reads, "palette_list.json")
    /\ UNCHANGED <<files, frame>>

FindPalette ==
    /\ pc = "idle"
    /\ \E identifier \in Identifiers :
           /\ call' = [op |-> "find_palette", identifier |-> identifier]
           /\ ret' = find_palette(identifier)
    /\ pc' = "returned"
    /\ reads' = ReadText(reads, "palette_list.json")
    /\ UNCHANGED <<files, frame>>

GetPalette ==
    /\ pc = "idle"
    /\ \E identifier \in Identifiers, n \in NValues, direction \in Directions :
           /\ call' = [op |-> "get_palette", identifier |-> identifier, n |-> n,
                       direction |-> direction]
           /\ ret' = get_palette(identifier, n, direction)
    /\ pc' = "returned"
    /\ reads' = ReadText(reads, "palette_list.json")
    /\ UNCHANGED <<files, frame>>

CustomPalette ==
    /\ pc = "idle"
    /\ \E color_ids \in ColorIdLists, names \in NameLists, hexes \in HexLists,
          groups \in GroupLists, subgroups \in SubgroupLists, order \in Orders,
          n \in NValues, direction \in Directions :
           /\ call' = [op |-> "custom_palette", color_ids |-> color_ids, names |-> names,
                       hexes |-> hexes, groups |-> groups, subgroups |-> subgroups,
                       order |-> order, n |-> n, direction |-> direction]
           /\ ret' = custom_palette(color_ids, names, hexes, groups, subgroups,
                                    order, n, direction)
    /\ pc' = "returned"
    /\ reads' = ReadChinacolor(reads)
    /\ UNCHANGED <<files, frame>>

\* the caller takes the result
Return ==
    /\ pc = "returned"
    /\ pc' = "idle"
    /\ call' = [op |-> "none"]
    /\ ret' = [status |-> "none", value |-> <<>>]
    /\ frame' = NoFrame
    /\ UNCHANGED <<files, reads>>

\* the components written inside rgb(...)
RgbTokens ==
    {<<"0">>, <<"1">>, <<"2">>, <<"2","5","5">>, <<"1","2","8">>, <<"3","0","0">>,
     <<"-","1">>, <<"0",".","5">>, <<"0",".","2","5">>, <<"5","0","%">>}

\* "rgb(a,b,c)" and "RGBA( a , b , c , 0.5 )"
RgbForms(a, b, c) ==
    {<<"r","g","b","(">> \o a \o <<",">> \o b \o <<",">> \o c \o <<")">>,
     <<"R","G","B","A","("," ">> \o a \o <<" ",","," ">> \o b \o <<" ",","," ">> \o c
        \o <<" ",","," ","0",".","5"," ",")">>}

\* texts that to_hex refuses
RefusedTexts ==
    {<<"#","1","2">>,
     <<"r","g","b","(","1",",","2",")">>,
     <<"r","g","b","(","1",",","x",",","0",")">>,
     <<"r","g","b","(","2","5","5",",","0",",","0">>}

\* a caller of the colour parser
ParseHex ==
    /\ pc = "idle"
    /\ \E r \in ParserDigits, g \in ParserDigits, b \in ParserDigits :
           \E color \in HexForms(r, g, b) :
               /\ call' = [op |-> "to_hex", color |-> color]
               /\ ret' = to_hex(color)
    /\ pc' = "returned"
    /\ UNCHANGED <<files, reads, frame>>

Next == FindPalette \/ GetPalette \/ CustomPalette \/ Return

\* a caller of the colour parser with the functional rgb notation, or with a
\* text the parser refuses
ParseRgb ==
    /\ pc = "idle"
    /\ \E color \in RefusedTexts
                    \cup UNION {RgbForms(a, b, c) : a \in RgbTokens, b \in RgbTokens,
                                                    c \in RgbTokens} :
           /\ call' = [op |-> "to_hex", color |-> color]
           /\ ret' = to_hex(color)
    /\ pc' = "returned"
    /\ UNCHANGED <<files, reads, frame>>

NextParser == ParseHex \/ ParseRgb \/ Return

NextPalettes == FindPalette \/ GetPalette \/ Return

\* the base lists of a stepwise run
CenterOutBases == UNION {[1..k -> SamplerColors] : k \in 1..MaxCenterOutBase}

\* a diverging palette is asked for n colours: the lines before the while loop
EnterCenterOut ==
    /\ pc = "idle"
    /\ \E base \in CenterOutBases, n \in -1..MaxN :
           /\ call' = [op |-> "_diverging_center_out", base |-> base, n |-> n]
           /\ IF n >= Len(base)
              THEN pc' = "returned" /\ ret' = Ok(Take(base, n)) /\ frame' = NoFrame
              ELSE IF n = 1
              THEN /\ pc' = "returned"
                   /\ ret' = Ok(<<PyAt(base, (Len(base) - 1) \div 2)>>)
                   /\ frame' = NoFrame
              ELSE pc' = "loop" /\ ret' = ret /\ frame' = CenterOutEntry(base)
    /\ UNCHANGED <<files, reads>>

\* the loop condition holds and no break was executed: one more iteration
LoopStep ==
    /\ pc = "loop"
    /\ Len(frame.out) < call.n
    /\ ~frame.stopped
    /\ frame' = CenterOutBody(call.base, call.n, frame)
    /\ UNCHANGED <<files, reads, pc, call, ret>>

\* the loop is left: the picks are put back in base order and cut to n
ExitCenterOut ==
    /\ pc = "loop"
    /\ Len(frame.out) >= call.n \/ frame.stopped
    /\ pc' = "returned"
    /\ ret' = IF frame.raised THEN Raise("IndexError")
              ELSE Ok(Take(SortedByIndex(call.base, frame.out, 1), call.n))
    /\ UNCHANGED <<files, reads, frame, call>>

NextCenterOut == EnterCenterOut \/ LoopStep \/ ExitCenterOut \/ Return

\* the orders given to create_color_pick: the three rules and one it refuses
PickOrders == {1, 0, -1, 2}

\* a caller builds a color_pick
CreateColorPick ==
    /\ pc = "idle"
    /\ \E color_id \in ColorIdLists, groups \in GroupLists, subgroups \in SubgroupLists,
          order_rule \in PickOrders :
           /\ call' = [op |-> "create_color_pick", color_id |-> color_id, groups |-> groups,
                       subgroups |-> subgroups, order_rule |-> order_rule]
           /\ ret' = create_color_pick(color_id, groups, subgroups, order_rule)
    /\ pc' = "returned"
    /\ UNCHANGED <<files, reads, frame>>

\* the caller hands the color_pick it was given to custom_palette_pick
CustomPalettePick ==
    /\ pc = "returned"
    /\ call.op = "create_color_pick"
    /\ ret.status = "ok"
    /\ \E n \in NValues, direction \in Directions :
           /\ call' = [op |-> "custom_palette_pick", color_id |-> call.color_id,
                       groups |-> call.groups, subgroups |-> call.subgroups,
                       order_rule |-> call.order_rule, n |-> n, direction |-> direction]
           /\ ret' = custom_palette_pick(ret.value, n, direction)
    /\ reads' = ReadChinacolor(reads)
    /\ UNCHANGED <<files, frame, pc>>

NextPick == CreateColorPick \/ CustomPalettePick \/ Return

NextLoader == LoadChinacolor \/ LoadPaletteList \/ ListPalettes \/ FindPalette \/ Return

Spec == Init /\ [][Next]_vars

SpecSampler == InitSampler /\ [][NextPalettes]_vars

SpecResolver == InitResolver /\ [][NextPalettes]_vars

SpecLoader == InitLoader /\ [][NextLoader]_vars

SpecPick == Init /\ [][NextPick]_vars

\* a call that has started runs on: the interpreter executes the next iteration
\* and the return
SpecCenterOut ==
    Init /\ [][NextCenterOut]_vars /\ WF_vars(LoopStep) /\ WF_vars(ExitCenterOut)

SpecParser == Init /\ [][NextParser]_vars

---------------------------------------------------------------------------
(* The claims.  Each is stated over the call that has just returned. *)

GotPalette == pc = "returned" /\ call.op = "get_palette"

FoundPalette == pc = "returned" /\ call.op = "find_palette"

BuiltCustom == pc = "returned" /\ call.op = "custom_palette"

\* the record the identifier of the call resolves to
Resolved == _normalize_identifier(call.identifier)

\* get_palette was called with direction 1 and an integer count on a palette of
\* one of the given kinds
Sampled(kinds) ==
    /\ GotPalette
    /\ ~call.n.none
    /\ call.direction = 1
    /\ Resolved.status = "ok"
    /\ Resolved.value.p.type \in kinds

Abs(x) == IF x < 0 THEN -x ELSE x

\* C1: for a diverging palette of m base colours and 1 <= count < m,
\* get_palette(p, count, 1) is the base colours at count consecutive indices
\* around the middle index (m-1)//2, the two sides differing by at most one
\* colour, in ascending index order; also when a colour occurs twice in base.
\* (Stated for the records whose declared color_count is m.)
C1_CenterOutWindow ==
    (Sampled({"diverging"}) /\ Resolved.value.p.color_count = Len(Resolved.value.p.hex)
        /\ 1 <= call.n.v /\ call.n.v < Len(Resolved.value.p.hex))
    => LET base == Resolved.value.p.hex
           n    == call.n.v
           mid  == ((Len(base) - 1) \div 2) + 1
       IN  \E lo \in 1..mid :
               /\ mid <= lo + n - 1
               /\ Abs((mid - lo) - (lo + n - 1 - mid)) <= 1
               /\ ret = Ok(SubSeq(base, lo, lo + n - 1))

\* C2: for a qualitative palette of m >= 1 base colours and count > m,
\* get_palette(p, count, 1) has exactly count colours, the i-th (0-based)
\* being base[i mod m].
C2_QualitativeCycle ==
    (Sampled({"qualitative"}) /\ call.n.v > Len(Resolved.value.p.hex))
    => LET base == Resolved.value.p.hex
       IN  ret = Ok([i \in 1..call.n.v |-> base[((i - 1) % Len(base)) + 1]])

\* the piecewise-linear gradient through the channel bytes cs at position
\* i/(n-1), as the exact fraction <<numerator, denominator>>
Gradient(cs, i, n) ==
    LET m   == Len(cs)
        j   == Min((i * (m - 1)) \div (n - 1), m - 2)
        num == i * (m - 1) - j * (n - 1)
    IN  <<cs[j + 1] * ((n - 1) - num) + cs[j + 2] * num, n - 1>>

\* b is an integer nearest to the fraction f
Nearest(b, f) == 2 * Abs(b * f[2] - f[1]) <= f[2]

\* C3: for a sequential or diverging palette of m base colours and count > m,
\* the i-th colour (0-based) of get_palette(p, count, 1) is the piecewise-linear
\* RGB gradient through base at i/(count-1), each channel rounded to the
\* nearest integer.  (Stated for the records with m >= 2 whose declared
\* color_count is m.)
C3_GradientRounded ==
    (Sampled({"sequential", "diverging"})
        /\ Resolved.value.p.color_count = Len(Resolved.value.p.hex)
        /\ Len(Resolved.value.p.hex) >= 2
        /\ call.n.v > Len(Resolved.value.p.hex))
    => LET base == Resolved.value.p.hex
           n    == call.n.v
       IN  /\ ret.status = "ok"
           /\ Len(ret.value) = n
           /\ \A i \in 1..n, k \in 1..3 :
                  Nearest(Channel(ret.value[i], k),
                          Gradient([j \in 1..Len(base) |-> Channel(base[j], k)], i - 1, n))

\* C4: get_palette applies the count > m rules exactly when count exceeds
\* m = len(base), and the count <= m rules otherwise, whatever color_count the
\* record declares.  (Stated for the records with m >= 2.)
C4_RulesByLength ==
    (GotPalette /\ ~call.n.none /\ call.direction = 1 /\ Resolved.status = "ok"
        /\ Len(Resolved.value.p.hex) >= 2)
    => LET p == Resolved.value.p
       IN  ret = SampleCount([p EXCEPT !.color_count = Len(p.hex)], call.n.v)

\* C5: for a palette of any kind, get_palette(p, None, 1) is the base colours
\* unchanged: the same length, colours and order.
C5_UnsetCountIsBase ==
    (GotPalette /\ call.n.none /\ call.direction = 1 /\ Resolved.status = "ok")
    => /\ ret.status = "ok"
       /\ Len(ret.value) = Len(Resolved.value.p.hex)
       /\ \A i \in 1..Len(ret.value) : ret.value[i] = Resolved.value.p.hex[i]

\* C5 witness: the base list of a diverging palette returned whole, one that
\* does not read the same backwards
C5_Witness ==
    /\ GotPalette /\ call.n.none /\ call.direction = 1
    /\ ret.status = "ok"
    /\ Resolved.value.p.type = "diverging"
    /\ Len(ret.value) >= 3
    /\ ret.value[1] # ret.value[Len(ret.value)]

\* C6: for a sequential or qualitative palette of m base colours and
\* 0 <= count <= m, get_palette(p, count, 1) is the first count base colours
\* in their order.  (Stated for the records with m >= 2.)
C6_FirstCount ==
    (Sampled({"sequential", "qualitative"})
        /\ Len(Resolved.value.p.hex) >= 2
        /\ 0 <= call.n.v /\ call.n.v <= Len(Resolved.value.p.hex))
    => ret = Ok(SubSeq(Resolved.value.p.hex, 1, call.n.v))

\* C7: for every palette and every count (unset, <= m, > m),
\* get_palette(p, count, -1) is the element-by-element reverse of
\* get_palette(p, count, 1) (and fails when that fails).
C7_MinusOneReverses ==
    (GotPalette /\ call.direction = -1)
    => LET f == get_palette(call.identifier, call.n, 1)
       IN  /\ ret.status = f.status
           /\ ret.status = "ok" =>
                 /\ Len(ret.value) = Len(f.value)
                 /\ \A i \in 1..Len(f.value) :
                        ret.value[i] = f.value[Len(f.value) + 1 - i]

\* C7 witness: a reversed centre-out selection that differs from the forward one
C7_Witness ==
    /\ GotPalette /\ call.direction = -1 /\ ~call.n.none
    /\ ret.status = "ok"
    /\ Resolved.value.p.type = "diverging"
    /\ call.n.v < Len(Resolved.value.p.hex)
    /\ Len(ret.value) >= 2
    /\ ret.value[1] # ret.value[Len(ret.value)]

\* C8: for a direction other than 1 and -1, get_palette returns what it returns
\* for direction 1, and so does custom_palette; the direction raises no error.
C8_OtherDirectionIsOne ==
    /\ (GotPalette /\ call.direction \notin {1, -1})
       => ret = get_palette(call.identifier, call.n, 1)
    /\ (BuiltCustom /\ call.direction \notin {1, -1})
       => ret = custom_palette(call.color_ids, call.names, call.hexes, call.groups,
                               call.subgroups, call.order, call.n, 1)

\* C8 witness: custom_palette with direction 2 returning a list that does not
\* read the same backwards
C8_Witness ==
    /\ BuiltCustom /\ call.direction = 2
    /\ ret.status = "ok"
    /\ Len(ret.value) >= 2
    /\ ret.value[1] # ret.value[Len(ret.value)]

\* the positions of the palettes whose primary / secondary display name equals
\* the text case-insensitively
PrimaryAt(text) ==
    {i \in 1..Len(pl_order) : Lower(pl_map[pl_order[i]].palette_name) = Lower(text)}

SecondaryAt(text) ==
    {i \in 1..Len(pl_order) : Lower(pl_map[pl_order[i]].palette_name_e) = Lower(text)}

First(S) == CHOOSE i \in S : \A j \in S : i <= j

NthPalette(i) == pl_map[pl_order[i]]

\* C9 as claimed: for a string, find_palette returns the palette of that key;
\* else the first palette whose primary name matches case-insensitively; else
\* the first palette whose secondary name matches: a primary match anywhere is
\* preferred to a secondary match of an earlier palette.
C9_StrictPriority ==
    (FoundPalette /\ call.identifier.tag = "str")
    => LET x == call.identifier.s
       IN  IF x \in DOMAIN pl_map THEN ret = Ok(pl_map[x])
           ELSE IF PrimaryAt(x) # {} THEN ret = Ok(NthPalette(First(PrimaryAt(x))))
           ELSE IF SecondaryAt(x) # {} THEN ret = Ok(NthPalette(First(SecondaryAt(x))))
           ELSE TRUE

\* C9 as amended: for a string, find_palette returns the palette of that key;
\* else the first palette in declaration order whose primary or secondary
\* display name matches case-insensitively.
C9_KeyThenFirstNamed ==
    (FoundPalette /\ call.identifier.tag = "str")
    => LET x == call.identifier.s
           named == PrimaryAt(x) \cup SecondaryAt(x)
       IN  IF x \in DOMAIN pl_map THEN ret = Ok(pl_map[x])
           ELSE IF named # {} THEN ret = Ok(NthPalette(First(named)))
           ELSE TRUE

\* C9 witness: a string that is no key, that the first palette matches by its
\* secondary name only and a later palette by its primary name; the first
\* palette is returned
C9_Witness ==
    /\ FoundPalette /\ call.identifier.tag = "str"
    /\ call.identifier.s \notin DOMAIN pl_map
    /\ 1 \in SecondaryAt(call.identifier.s)
    /\ 1 \notin PrimaryAt(call.identifier.s)
    /\ 2 \in PrimaryAt(call.identifier.s)
    /\ ret = Ok(NthPalette(1))
    /\ NthPalette(1) # NthPalette(2)

\* C10: an integer identifier x resolves to the x-th palette in declaration
\* order if and only if 1 <= x <= number of palettes; for every other integer
\* find_palette and get_palette raise IndexError and return nothing.
C10_OrdinalRange ==
    (pc = "returned" /\ call.op \in {"find_palette", "get_palette"}
        /\ call.identifier.tag = "int")
    => LET x == call.identifier.i
       IN  IF 1 <= x /\ x <= Len(pl_order)
           THEN /\ ret.status \notin {"IndexError", "KeyError"}
                /\ call.op = "find_palette" => ret = Ok(NthPalette(x))
                /\ (call.op = "get_palette" /\ call.n.none /\ call.direction = 1)
                       => ret = Ok(NthPalette(x).hex)
           ELSE ret = [status |-> "IndexError", value |-> <<>>]

\* C10 witness: the second palette found by ordinal 2
C10_Witness ==
    /\ FoundPalette /\ call.identifier.tag = "int" /\ call.identifier.i = 2
    /\ ret = Ok(NthPalette(2))
    /\ NthPalette(2) # NthPalette(1)

\* the identifier of the call names the first declared palette: ordinal 1, its
\* key, or one of its display names in any letter case
NamesFirst ==
    \/ call.identifier.tag = "int" /\ call.identifier.i = 1
    \/ call.identifier.tag = "str"
        /\ \/ call.identifier.s = pl_order[1]
           \/ Lower(call.identifier.s) = Lower(NthPalette(1).palette_name)
           \/ Lower(call.identifier.s) = Lower(NthPalette(1).palette_name_e)

\* C11 as claimed: find_palette returns the first declared palette whether it
\* is identified by ordinal 1, by its key, or by its primary or secondary
\* display name in any letter case.
C11_FirstByAnyName ==
    (FoundPalette /\ NamesFirst) => ret = Ok(NthPalette(1))

\* C11 as amended: the same, for every identifier that is not, as written, the
\* key of another palette (an exact key match comes before any name match).
C11_FirstByAnyNameNotOtherKey ==
    (FoundPalette /\ NamesFirst
        /\ ~(call.identifier.tag = "str"
              /\ call.identifier.s \in DOMAIN pl_map
              /\ call.identifier.s # pl_order[1]))
    => ret = Ok(NthPalette(1))

\* C11 witness: the first palette found by its secondary display name written
\* in another letter case, a later palette having the same name
C11_Witness ==
    /\ FoundPalette /\ call.identifier.tag = "str"
    /\ call.identifier.s \notin DOMAIN pl_map
    /\ Lower(call.identifier.s) = Lower(NthPalette(1).palette_name_e)
    /\ call.identifier.s # NthPalette(1).palette_name_e
    /\ Lower(call.identifier.s) # Lower(NthPalette(1).palette_name)
    /\ 2 \in PrimaryAt(call.identifier.s)
    /\ ret = Ok(NthPalette(1))
    /\ NthPalette(1) # NthPalette(2)

\* C12: a string that is no palette key exactly and no primary or secondary
\* display name case-insensitively makes find_palette and get_palette raise
\* KeyError; any other string does not raise it.
C12_UnknownNameRaises ==
    (pc = "returned" /\ call.op \in {"find_palette", "get_palette"}
        /\ call.identifier.tag = "str")
    => LET x == call.identifier.s
           known == x \in DOMAIN pl_map \/ PrimaryAt(x) \cup SecondaryAt(x) # {}
       IN  IF known THEN ret.status # "KeyError"
           ELSE ret = [status |-> "KeyError", value |-> <<>>]

\* C12 witness: get_palette called with a palette key written in upper case
\* that is no display name raises KeyError
C12_Witness ==
    /\ GotPalette /\ call.identifier.tag = "str"
    /\ call.identifier.s \notin DOMAIN pl_map
    /\ Lower(call.identifier.s) \in DOMAIN pl_map
    /\ PrimaryAt(call.identifier.s) \cup SecondaryAt(call.identifier.s) = {}
    /\ ret = [status |-> "KeyError", value |-> <<>>]

\* every group of the call has a subgroup sequence: the subgroups are unset, or
\* given with at least one sequence (the last one serves the remaining groups)
Paired ==
    call.groups.none \/ call.groups.v = <<>> \/ call.subgroups.none \/ call.subgroups.v # <<>>

\* the candidates of the returned custom_palette call, in collection order
CallChosen ==
    LET rows == load_chinacolor
        c3   == CollectHexes(call.hexes,
                    CollectNames(rows, call.names, CollectIds(rows, call.color_ids, <<>>)))
    IN  IF call.groups.none THEN c3
        ELSE c3 \o GroupPicks(rows, call.groups.v,
                        NormalSubgroups(call.groups.v, call.subgroups), 1)

HexesOf(es) == [i \in 1..Len(es) |-> es[i].hex]

Range(s) == {s[i] : i \in 1..Len(s)}

\* the hex of the colour row of that color_id
HexOfId(cid) == (CHOOSE r \in Range(load_chinacolor) : r.color_id = cid).hex

\* custom_palette was called with order 1 (preserve input), no count and
\* direction 1, and returned a list
PlainCustom ==
    /\ BuiltCustom /\ Paired
    /\ call.order = 1 /\ call.n.none /\ call.direction = 1
    /\ ret.status = "ok"

\* r lists every element of cand once, in the order of first occurrence in cand
IsFirstOccurrenceDedup(r, cand) ==
    /\ Range(r) = Range(cand)
    /\ \A i, j \in 1..Len(r) : i < j => IndexOf(cand, r[i]) < IndexOf(cand, r[j])

\* C13: with order 1 and no count, custom_palette returns each selected hex
\* once, in the order of its first occurrence among the candidates; color_ids
\* [5,1,5] alone give the two colours [hex of id 5, hex of id 1].
C13_DedupFirstSeen ==
    /\ PlainCustom => IsFirstOccurrenceDedup(ret.value, HexesOf(CallChosen))
    /\ (PlainCustom /\ call.color_ids = <<5, 1, 5>> /\ call.names = <<>>
            /\ call.hexes = <<>> /\ call.groups.none)
       => ret.value = <<HexOfId(5), HexOfId(1)>>

\* C13 witness: color_ids [5,1,5] alone returned two different colours, the
\* one of id 5 first
C13_Witness ==
    /\ PlainCustom /\ call.color_ids = <<5, 1, 5>> /\ call.names = <<>>
    /\ call.hexes = <<>> /\ call.groups.none
    /\ ret = Ok(<<HexOfId(5), HexOfId(1)>>)
    /\ HexOfId(5) # HexOfId(1)

\* the ids of the call that a colour row carries, and the names likewise
PresentIds ==
    SelectSeq(call.color_ids,
              LAMBDA c : \E r \in Range(load_chinacolor) : r.color_id = c /\ r.hex # <<>>)

PresentNames ==
    SelectSeq(call.names,
              LAMBDA nm : \E r \in Range(load_chinacolor) : r.name = nm /\ r.hex # <<>>)

\* every entry of hexes is a text the parser accepts
AllHexesParse == \A i \in 1..Len(call.hexes) : to_hex(call.hexes[i]).status = "ok"

\* the hexes selected through the groups of the call
GroupHexes ==
    IF call.groups.none THEN <<>>
    ELSE HexesOf(GroupPicks(load_chinacolor, call.groups.v,
                            NormalSubgroups(call.groups.v, call.subgroups), 1))

\* C14: with order 1 and no count, custom_palette returns the first-occurrence
\* deduplication of: the hexes of the ids, then one hex of a row of each name,
\* then the canonical forms of the direct hex strings, then the group
\* selections, each source in its input order, for every combination of
\* sources.
C14_SourcesInFixedOrder ==
    (PlainCustom /\ AllHexesParse)
    => LET ids  == [i \in 1..Len(PresentIds) |-> HexOfId(PresentIds[i])]
           hx   == [i \in 1..Len(call.hexes) |-> to_hex(call.hexes[i]).value]
           rows == Range(load_chinacolor)
       IN  \E nh \in [1..Len(PresentNames) -> {r.hex : r \in rows}] :
               /\ \A i \in 1..Len(PresentNames) :
                      \E r \in rows : r.name = PresentNames[i] /\ r.hex = nh[i]
               /\ IsFirstOccurrenceDedup(ret.value, ids \o nh \o hx \o GroupHexes)

\* C14 witness: all four sources supplied and each contributing a colour of
\* its own to the result
C14_Witness ==
    /\ PlainCustom /\ AllHexesParse
    /\ PresentIds # <<>> /\ PresentNames # <<>> /\ call.hexes # <<>> /\ GroupHexes # <<>>
    /\ ret.value[1] = HexOfId(call.color_ids[1])
    /\ \E i, j, k \in 1..Len(ret.value) :
           /\ i < j /\ j < k
           /\ \E r \in Range(load_chinacolor) :
                  r.name = PresentNames[1] /\ r.hex = ret.value[i]
           /\ ret.value[j] = to_hex(call.hexes[1]).value
           /\ ret.value[k] \in Range(GroupHexes)
           /\ ret.value[k] \notin Range(HexesOf(CollectIds(load_chinacolor, call.color_ids, <<>>)))

\* custom_palette was called with the given order, no count and direction 1,
\* every hexes entry being accepted, and returned a list
OrderedCustom(order) ==
    /\ BuiltCustom /\ Paired /\ AllHexesParse
    /\ call.order = order /\ call.n.none /\ call.direction = 1
    /\ ret.status = "ok"

\* for each name of the call that a row carries, a row of that name
NameRows ==
    {f \in [1..Len(PresentNames) -> Range(load_chinacolor)] :
        \A i \in 1..Len(PresentNames) : f[i].name = PresentNames[i] /\ f[i].hex # <<>>}

\* the candidates of the call with their sort keys, the candidate of a name
\* being the row f gives it: a dataset colour has the color_id of its row, the
\* i-th direct hex string a key above every color_id that grows with i
KeyedCandidates(f) ==
    [i \in 1..Len(PresentIds) |-> Entry(PresentIds[i], HexOfId(PresentIds[i]))]
    \o [i \in 1..Len(PresentNames) |-> Entry(f[i].color_id, f[i].hex)]
    \o [i \in 1..Len(call.hexes) |-> Entry(BigKey + i, to_hex(call.hexes[i]).value)]
    \o (IF call.groups.none THEN <<>>
        ELSE GroupPicks(load_chinacolor, call.groups.v,
                        NormalSubgroups(call.groups.v, call.subgroups), 1))

\* the candidates that are the first of their hex
FirstSeen(es) == {es[i] : i \in {i \in 1..Len(es) : \A j \in 1..(i - 1) : es[j].hex # es[i].hex}}

KeyIn(S, h) == (CHOOSE e \in S : e.hex = h).key

\* r lists the hexes of S once each, by ascending key, equal keys by hex
AscendingByKey(r, S) ==
    /\ Range(r) = {e.hex : e \in S} /\ Len(r) = Cardinality(S)
    /\ \A i, j \in 1..Len(r) :
           i < j => \/ KeyIn(S, r[i]) < KeyIn(S, r[j])
                    \/ KeyIn(S, r[i]) = KeyIn(S, r[j]) /\ StrLess(r[i], r[j])

\* r lists the hexes of S once each, by descending key
DescendingByKey(r, S) ==
    /\ Range(r) = {e.hex : e \in S} /\ Len(r) = Cardinality(S)
    /\ \A i, j \in 1..Len(r) : i < j => KeyIn(S, r[i]) >= KeyIn(S, r[j])

\* C15: custom_palette with order 0 returns the deduplicated colours by
\* ascending sort key (a dataset colour by its color_id, the direct hex strings
\* after all of them in input order), equal keys by hex string; with order -1
\* by descending sort key; with order 1 in the deduplicated order.
C15_SortedByKey ==
    /\ OrderedCustom(0)
       => \E f \in NameRows : AscendingByKey(ret.value, FirstSeen(KeyedCandidates(f)))
    /\ OrderedCustom(-1)
       => \E f \in NameRows : DescendingByKey(ret.value, FirstSeen(KeyedCandidates(f)))
    /\ OrderedCustom(1)
       => \E f \in NameRows :
              IsFirstOccurrenceDedup(ret.value, HexesOf(KeyedCandidates(f)))

\* no name of the call is carried by two colour rows
NamesUnique ==
    \A i \in 1..Len(call.names) :
        Cardinality({r \in Range(load_chinacolor) : r.name = call.names[i]}) <= 1

\* On the calls none of whose names is carried by two rows, the statement of
\* C15 holds as written
SortedByKeyUniqueNames == (BuiltCustom /\ NamesUnique) => C15_SortedByKey

\* custom_palette was called with groups only (no ids, names or hexes), order
\* 1, no count and direction 1, and returned a list
GroupsOnly ==
    /\ PlainCustom /\ ~call.groups.none
    /\ call.color_ids = <<>> /\ call.names = <<>> /\ call.hexes = <<>>

\* the subgroup sequence of the gi-th group of the call: -1 alone stands for
\* 4,3,2,1; unset subgroups stand for 1,2,3,4; the last given sequence serves
\* the groups beyond it
SequenceOf(gi) ==
    IF call.subgroups.none THEN <<1, 2, 3, 4>>
    ELSE LET given == call.subgroups.v[Min(gi, Len(call.subgroups.v))]
         IN  IF given = <<-1>> THEN <<4, 3, 2, 1>> ELSE given

\* the places <<group position, subgroup position, row position>> at which the
\* group selection of the call meets a row of hex h
PlacesOf(h) ==
    LET rows == load_chinacolor
    IN  {<<gi, sj, ri>> \in (1..Len(call.groups.v)) \X (1..4) \X (1..Len(rows)) :
            /\ sj <= Len(SequenceOf(gi))
            /\ rows[ri].hex = h
            /\ rows[ri].group = call.groups.v[gi]
            /\ rows[ri].subgroup = SequenceOf(gi)[sj]}

\* place a comes before place b: group first, then subgroup, then row
PlaceBefore(a, b) ==
    \/ a[1] < b[1]
    \/ a[1] = b[1] /\ a[2] < b[2]
    \/ a[1] = b[1] /\ a[2] = b[2] /\ a[3] < b[3]

FirstPlace(h) == CHOOSE a \in PlacesOf(h) : \A b \in PlacesOf(h) : a = b \/ PlaceBefore(a, b)

\* C16: the group selection lists the colours group by group in the order of
\* the groups, within a group subgroup by subgroup in the order of its
\* subgroup sequence, within a (group, subgroup) pair in dataset order; the
\* sequence -1 is read as 4,3,2,1.
C16_GroupOrder ==
    GroupsOnly
    => /\ Range(ret.value) = {r.hex : r \in {r \in Range(load_chinacolor) : PlacesOf(r.hex) # {}}}
       /\ \A i, j \in 1..Len(ret.value) :
              i < j => PlaceBefore(FirstPlace(ret.value[i]), FirstPlace(ret.value[j]))

\* C16 witness: two groups read with the sequence -1; the result starts with
\* the subgroup 4 colour of the first group, holds two colours of one
\* (group, subgroup) pair in dataset order and ends with the subgroup 1 colour
\* of the second group
C16_Witness ==
    /\ GroupsOnly /\ Len(call.groups.v) = 2
    /\ ~call.subgroups.none /\ call.subgroups.v = <<<<-1>>>>
    /\ FirstPlace(ret.value[1]) = <<1, 1, 3>>
    /\ \E i \in 1..(Len(ret.value) - 1) :
           /\ FirstPlace(ret.value[i])[1] = FirstPlace(ret.value[i + 1])[1]
           /\ FirstPlace(ret.value[i])[2] = FirstPlace(ret.value[i + 1])[2]
    /\ FirstPlace(ret.value[Len(ret.value)])[1] = 2
    /\ FirstPlace(ret.value[Len(ret.value)])[2] = 4

\* the list the call returns when it is made with no count and direction 1
Uncounted ==
    custom_palette(call.color_ids, call.names, call.hexes, call.groups, call.subgroups,
                   call.order, NoneN, 1)

\* C17: with k >= 1 ordered colours, a count above k returns count colours,
\* the i-th (0-based) being the (i mod k)-th ordered colour, and a count from 0
\* to k returns the first count ordered colours; the count is applied to the
\* ordered list and the direction to the counted list.
C17_CountCyclesOrTruncates ==
    (BuiltCustom /\ Paired /\ ~call.n.none /\ call.n.v >= 0 /\ call.direction \in {1, -1}
        /\ Uncounted.status = "ok")
    => LET full    == Uncounted.value
           k       == Len(full)
           counted == IF call.n.v > k
                      THEN [i \in 1..call.n.v |-> full[((i - 1) % k) + 1]]
                      ELSE SubSeq(full, 1, call.n.v)
       IN  ret = Ok(IF call.direction = -1
                    THEN [i \in 1..Len(counted) |-> counted[Len(counted) + 1 - i]]
                    ELSE counted)

\* C17 witness: three or more colours sorted by descending key, a count above
\* their number that is no multiple of it, and direction -1
C17_Witness ==
    /\ BuiltCustom /\ Paired /\ ~call.n.none /\ call.direction = -1 /\ call.order = -1
    /\ Uncounted.status = "ok"
    /\ Len(Uncounted.value) >= 3
    /\ call.n.v > Len(Uncounted.value)
    /\ call.n.v % Len(Uncounted.value) # 0
    /\ ret.status = "ok" /\ Len(ret.value) = call.n.v
    /\ ret.value[Len(ret.value)] = Uncounted.value[1]
    /\ ret.value[1] # Uncounted.value[Len(Uncounted.value)]

\* the call selects no colour: no id and no name of it is carried by a row,
\* no hexes entry is accepted, no row lies in one of its (group, subgroup) pairs
NothingSelected ==
    /\ PresentIds = <<>>
    /\ PresentNames = <<>>
    /\ \A i \in 1..Len(call.hexes) : to_hex(call.hexes[i]).status # "ok"
    /\ call.groups.none \/ \A r \in Range(load_chinacolor) : PlacesOf(r.hex) = {}

\* C18: custom_palette raises ValueError exactly when no candidate is
\* selected (nothing supplied, or nothing supplied matches); when a candidate
\* is selected it returns a list.
C18_EmptySelectionOnly ==
    (BuiltCustom /\ Paired)
    => IF NothingSelected THEN ret = [status |-> "ValueError", value |-> <<>>]
       ELSE ret.status = "ok"

\* C18 witness: an id, a name and a group are supplied, none matches a row,
\* and the call raises ValueError
C18_Witness ==
    /\ BuiltCustom /\ Paired
    /\ call.color_ids # <<>> /\ call.names # <<>> /\ call.hexes = <<>>
    /\ ~call.groups.none /\ call.groups.v # <<>>
    /\ NothingSelected
    /\ ret = [status |-> "ValueError", value |-> <<>>]

\* C19 as claimed: a hexes entry that to_hex rejects makes the whole call
\* fail; the call does not go on without the entry.
C19_RejectedHexFails ==
    (BuiltCustom /\ Paired /\ ~AllHexesParse) => ret.status # "ok"

\* C19 as amended: a hexes entry that to_hex rejects is left out and the call
\* goes on: it returns what it returns when the rejected entries are not
\* supplied (ValueError only when nothing at all is selected).
C19_RejectedHexDropped ==
    (BuiltCustom /\ Paired /\ ~AllHexesParse)
    => /\ ret = custom_palette(call.color_ids, call.names,
                               SelectSeq(call.hexes, LAMBDA h : to_hex(h).status = "ok"),
                               call.groups, call.subgroups, call.order, call.n,
                               call.direction)
       /\ NothingSelected \/ ret.status = "ok"

\* C19 witness: a rejected entry followed by an accepted one, no other
\* source: the call returns the accepted colour alone
C19_Witness ==
    /\ BuiltCustom /\ Paired /\ call.n.none
    /\ call.color_ids = <<>> /\ call.names = <<>> /\ call.groups.none
    /\ Len(call.hexes) = 2
    /\ to_hex(call.hexes[1]).status = "ValueError"
    /\ to_hex(call.hexes[2]).status = "ok"
    /\ ret = Ok(<<to_hex(call.hexes[2]).value>>)

Parsed == pc = "returned" /\ call.op = "to_hex"

\* to_hex was called with "#" and three, six or eight digits
ParsedHex == Parsed /\ call.color[1] = "#" /\ Len(call.color) \in {4, 7, 9}

\* the upper-case form of each digit given to the parser
Capital == [c \in ParserDigits |-> IF c = "a" THEN "A" ELSE IF c = "f" THEN "F" ELSE c]

\* C20: for hex digits r, g, b of either case, to_hex("#rgb"), to_hex("#rrggbb")
\* and to_hex("#rrggbbAA"), for any alpha digits AA, are all "#" followed by
\* rrggbb in upper case.
C20_HexFormsAgree ==
    ParsedHex
    => LET c == call.color
           d == IF Len(c) = 4 THEN <<c[2], c[2], c[3], c[3], c[4], c[4]>>
                ELSE SubSeq(c, 2, 7)
           six == <<"#">> \o d
       IN  /\ ret = Ok(<<"#">> \o [i \in 1..6 |-> Capital[d[i]]])
           /\ Len(c) = 4 => /\ ret = to_hex(six)
                            /\ \A a \in AlphaPairs : ret = to_hex(six \o a)

\* C20 witness: a shorthand of three different digits, two of them lower-case
\* letters, parsed to its six upper-case digits
C20_Witness ==
    /\ Parsed /\ call.color = <<"#", "a", "7", "f">>
    /\ ret = Ok(<<"#", "A", "A", "7", "7", "F", "F">>)

\* the number each component text of RgbTokens denotes, a percentage already
\* divided by 100, as a fraction
TokenValue(t) ==
    IF t = <<"0">> THEN <<0, 1>>
    ELSE IF t = <<"1">> THEN <<1, 1>>
    ELSE IF t = <<"2">> THEN <<2, 1>>
    ELSE IF t = <<"2","5","5">> THEN <<255, 1>>
    ELSE IF t = <<"1","2","8">> THEN <<128, 1>>
    ELSE IF t = <<"3","0","0">> THEN <<300, 1>>
    ELSE IF t = <<"-","1">> THEN <<-1, 1>>
    ELSE IF t = <<"0",".","2","5">> THEN <<1, 4>>
    ELSE <<1, 2>>

\* the channel value of component i of rgb(a,b,c): the components are divided
\* by 255 when one of them exceeds 1
ChannelValue(abc, i) ==
    LET v == [k \in 1..3 |-> TokenValue(abc[k])]
    IN  IF \E k \in 1..3 : v[k][1] > v[k][2] THEN <<v[i][1], v[i][2] * 255>> ELSE v[i]

\* b is a byte nearest to 255 times the value x clamped to [0,1]
ByteOf(b, x) ==
    /\ b \in 0..255
    /\ IF x[1] < 0 THEN b = 0
       ELSE IF x[1] > x[2] THEN b = 255
       ELSE Nearest(b, <<255 * x[1], x[2]>>)

\* the bytes of a returned "#RRGGBB"
BytesOf(hex) == [k \in 1..3 |-> Channel(hex, k)]

\* to_hex was called with rgb(a,b,c) or RGBA( a , b , c , 0.5 )
ParsedRgb(a, b, c) == Parsed /\ call.color \in RgbForms(a, b, c)

\* C21: in rgb(a,b,c) / rgba(a,b,c,...) a percentage is divided by 100; if a
\* component then exceeds 1 all three are divided by 255, else they are taken
\* as fractions; so integers 0..255 of which one exceeds 1 give the bytes
\* a,b,c, rgb(255,0,0) is #FF0000 and rgb(1,0,0) is #FF0000 too.
C21_RgbScale ==
    \A a \in RgbTokens, b \in RgbTokens, c \in RgbTokens :
        ParsedRgb(a, b, c)
        => LET abc == <<a, b, c>>
               v   == [k \in 1..3 |-> TokenValue(abc[k])]
           IN  /\ ret.status = "ok"
               /\ \A k \in 1..3 : ByteOf(BytesOf(ret.value)[k], ChannelValue(abc, k))
               /\ ((\A k \in 1..3 : v[k][2] = 1 /\ v[k][1] \in 0..255)
                      /\ \E k \in 1..3 : v[k][1] > 1)
                  => BytesOf(ret.value) = [k \in 1..3 |-> v[k][1]]
               /\ abc \in {<<<<"2","5","5">>, <<"0">>, <<"0">>>>, <<<<"1">>, <<"0">>, <<"0">>>>}
                  => ret.value = <<"#","F","F","0","0","0","0">>

\* C21 witness: rgb(2,1,50%) read on the 0..255 scale gives #020100 (the half
\* of 1/255 rounds to the even byte 0)
C21_Witness ==
    /\ ParsedRgb(<<"2">>, <<"1">>, <<"5","0","%">>)
    /\ ret = Ok(<<"#","0","2","0","1","0","0">>)

QualitativeCycleDeclared ==
    (Sampled({"qualitative"}) /\ Resolved.value.p.color_count = Len(Resolved.value.p.hex))
    => C2_QualitativeCycle

FirstCountDeclared ==
    (Sampled({"sequential", "qualitative"})
        /\ Resolved.value.p.color_count = Len(Resolved.value.p.hex))
    => C6_FirstCount

---------------------------------------------------------------------------
(* The dataset loader *)

\* load_chinacolor has returned or raised
Loaded == pc = "returned" /\ call.op = "load_chinacolor"

\* the file is in one of the two places the loader looks in
Available(filename) == filename \in storage.package \cup storage.fallback

\* the records of a list as (color_id, name) pairs
IdNames(rows) == {<<rows[i].color_id, rows[i].name>> : i \in 1..Len(rows)}

\* C23: over any sequence of calls of load_chinacolor, load_palette_list,
\* list_palettes and find_palette in one process, no data file is read from
\* storage more than once.
C23_ReadAtMostOnce == \A f \in DataFiles : reads[f] <= 1

\* C24: load_chinacolor returns the records of chinacolor.csv whenever that
\* file is available and then never reads chinacolor.json; when the CSV is
\* absent and the JSON is available it returns the JSON records in file order,
\* a record without color_id getting its 1-based position; it raises
\* FileNotFoundError exactly when neither file is available.
C24_SourceChoice ==
    /\ Available("chinacolor.csv") => reads["chinacolor.json"] = 0
    /\ Loaded =>
        /\ Available("chinacolor.csv")
           => /\ ret.status = "ok"
              /\ Len(ret.value) = Len(chinacolor_csv)
              /\ IdNames(ret.value) = IdNames(chinacolor_csv)
        /\ (~Available("chinacolor.csv") /\ Available("chinacolor.json"))
           => /\ ret.status = "ok"
              /\ Len(ret.value) = Len(chinacolor_json)
              /\ \A i \in 1..Len(chinacolor_json) :
                    /\ ret.value[i].name = chinacolor_json[i].name
                    /\ ret.value[i].hex = chinacolor_json[i].hex
                    /\ ret.value[i].color_id =
                          IF chinacolor_json[i].color_id = 0 THEN i
                          ELSE chinacolor_json[i].color_id
        /\ ret.status = "FileNotFoundError"
           <=> (~Available("chinacolor.csv") /\ ~Available("chinacolor.json"))

\* C24 witness: the CSV is in neither place, the JSON is in the fallback
\* directory only; its third record, which has no color_id, comes back with 3
C24_Witness ==
    /\ Loaded
    /\ storage = [package |-> {"palette_list.json"}, fallback |-> {"chinacolor.json"}]
    /\ chinacolor_json = ShippedJson
    /\ ret.status = "ok"
    /\ ret.value[3].color_id = 3

\* the records that have a color_id are in ascending order of it
AscendingById(rows) ==
    \A i \in 1..Len(rows), j \in 1..Len(rows) :
        (i < j /\ rows[i].color_id # 0 /\ rows[j].color_id # 0)
        => rows[i].color_id <= rows[j].color_id

\* C25: the list load_chinacolor returns is in ascending order of color_id,
\* from either file and whatever the order of the records in the file.
C25_SortedById == (Loaded /\ ret.status = "ok") => AscendingById(ret.value)

\* the list loaded from chinacolor.csv is in ascending order of color_id
SortedFromCsv ==
    (Loaded /\ Available("chinacolor.csv")) => AscendingById(ret.value)

---------------------------------------------------------------------------
(* The number of colours get_palette returns *)

\* get_palette was called with an integer count >= 0 and direction 1 or -1 on
\* a palette whose declared color_count is the length m >= 1 of its base list
CountedDeclared ==
    /\ GotPalette
    /\ ~call.n.none
    /\ call.n.v >= 0
    /\ call.direction \in {1, -1}
    /\ Resolved.status = "ok"
    /\ Len(Resolved.value.p.hex) >= 1
    /\ Resolved.value.p.color_count = Len(Resolved.value.p.hex)

\* C26: on every palette whose declared color_count is the length m >= 1 of
\* its base list, for every count >= 0 and direction 1 or -1, get_palette
\* returns exactly count colours.
C26_ExactCount ==
    CountedDeclared => (ret.status = "ok" /\ Len(ret.value) = call.n.v)

\* the same statement except for a sequential or diverging palette of a single
\* base colour asked for more than one colour
ExactCountTwoKnots ==
    (CountedDeclared
        /\ ~(Len(Resolved.value.p.hex) = 1 /\ call.n.v > 1
             /\ Resolved.value.p.type \in {"sequential", "diverging"}))
    => (ret.status = "ok" /\ Len(ret.value) = call.n.v)

---------------------------------------------------------------------------
(* The centre-out loop, step by step *)

\* _diverging_center_out is running or has returned
InCenterOut == pc \in {"loop", "returned"} /\ call.op = "_diverging_center_out"

\* C27: for every base of length m >= 1 and every integer n the centre-out
\* loop terminates: every iteration adds at least one colour or finds both
\* sides exhausted and stops, there are at most m iterations, and no index
\* outside 0..m-1 is read.
C27_CenterOutTerminates ==
    /\ [](InCenterOut
          => /\ frame.iterations <= Len(call.base)
             /\ frame.read \subseteq 0..(Len(call.base) - 1)
             /\ ~frame.raised
             /\ frame.iterations > 0
                => \/ frame.grew >= 1
                   \/ (frame.stopped /\ frame.li < 0 /\ frame.ri >= Len(call.base)))
    /\ ((pc = "loop") ~> (pc = "returned"))

\* C27 witness: a base of five colours asked for four: two iterations, the
\* second one stopped by the break after the left colour; indices 0..3 read
C27_Witness ==
    /\ pc = "returned"
    /\ call.op = "_diverging_center_out"
    /\ Len(call.base) = 5
    /\ call.n = 4
    /\ frame.iterations = 2
    /\ frame.stopped
    /\ frame.read = {0, 1, 2, 3}
    /\ ret.status = "ok"
    /\ Len(ret.value) = 4

\* the stepwise run returns what the function returns
CenterOutStepwise ==
    (pc = "returned" /\ call.op = "_diverging_center_out")
    => ret = Ok(_diverging_center_out(call.base, call.n))

---------------------------------------------------------------------------
(* The color_pick form of the custom palette builder *)

PickedPalette == pc = "returned" /\ call.op = "custom_palette_pick"

\* C28: for arguments that create_color_pick accepts, custom_palette_pick on
\* the color_pick built from (color_id, groups, subgroups, order_rule) returns
\* the list, or raises the error, that custom_palette returns or raises on the
\* same color_ids, groups, subgroups, order, n and direction.
C28_PickEquivalent ==
    PickedPalette
    => ret = custom_palette(call.color_id, <<>>, <<>>, call.groups, call.subgroups,
                            call.order_rule, call.n, call.direction)

\* C28 witness: two groups with one subgroup list [-1] for both, descending
\* order, no count: the pick repeats the list per group and the palette is the
\* six distinct colours of groups 1 and 2
C28_Witness ==
    /\ PickedPalette
    /\ call.color_id = <<>>
    /\ call.groups = SomeList(<<1, 2>>)
    /\ call.subgroups = SomeList(<<<<-1>>>>)
    /\ call.order_rule = -1
    /\ call.n.none
    /\ call.direction = 1
    /\ ret.status = "ok"
    /\ Len(ret.value) = 6

---------------------------------------------------------------------------
(* The candidates of the names *)

\* the candidates custom_palette adds for the names of the returned call, one
\* per name that a colour row carries, in the order of the names
NameCandidates == CollectNames(load_chinacolor, call.names, <<>>)

\* C29: for every name of the call that a colour row carries, the candidate
\* added for it has the hex and the color_id of one and the same row of that
\* name, also when several rows carry the name.
C29_NameCandidateOneRecord ==
    BuiltCustom
    => /\ Len(NameCandidates) = Len(PresentNames)
       /\ \A i \in 1..Len(PresentNames) :
              \E r \in Range(load_chinacolor) :
                  /\ r.name = PresentNames[i]
                  /\ r.hex = NameCandidates[i].hex
                  /\ r.color_id = NameCandidates[i].key

\* On the calls none of whose names is carried by two rows, the statement of
\* C29 holds as written
NameCandidateUniqueNames == (BuiltCustom /\ NamesUnique) => C29_NameCandidateOneRecord

---------------------------------------------------------------------------
(* The three orders of one selection *)

\* what custom_palette returns on the selection of the returned call with the
\* given order, no count and direction 1
Ordered(order) ==
    custom_palette(call.color_ids, call.names, call.hexes, call.groups, call.subgroups,
                   order, NoneN, 1)

\* r and s hold the same elements the same number of times
Permutation(r, s) ==
    /\ Len(r) = Len(s)
    /\ \A x \in Range(r) \cup Range(s) :
           Cardinality({i \in 1..Len(r) : r[i] = x})
               = Cardinality({i \in 1..Len(s) : s[i] = x})

\* C30: on every selection on which custom_palette succeeds, with no count and
\* direction 1, the list returned for order -1 is the reverse of the list for
\* order 0, and both are permutations of the list for order 1.
C30_DescendingReversesAscending ==
    (BuiltCustom /\ call.order = -1 /\ call.n.none /\ call.direction = 1
        /\ ret.status = "ok")
    => /\ Ordered(0).status = "ok" /\ Ordered(1).status = "ok"
       /\ ret.value = Reversed(Ordered(0).value)
       /\ Permutation(ret.value, Ordered(1).value)
       /\ Permutation(Ordered(0).value, Ordered(1).value)

\* C30 witness: ids [5,1,5] and the names ['zhu','no'] select three colours,
\* two of them with the sort key 1; descending order returns them reversed
C30_Witness ==
    /\ BuiltCustom /\ call.order = -1 /\ call.n.none /\ call.direction = 1
    /\ call.color_ids = <<5, 1, 5>>
    /\ call.names = <<<<"z","h","u">>, <<"n","o">>>>
    /\ call.hexes = <<>>
    /\ call.groups.none
    /\ ret = Ok(<<Black, Red, <<"#","C","C","0","0","0","0">>>>)
    /\ Ordered(0) = Ok(<<<<"#","C","C","0","0","0","0">>, Red, Black>>)
    /\ Ordered(1) = Ok(<<Black, Red, <<"#","C","C","0","0","0","0">>>>)

====
